---- MODULE Spec2Model ----
(***************************************************************************)
(* Table consolidation of backend/services/table_extractor.py:             *)
(* TableExtractor.extract_tables_from_pdf (the per-table export loop) and   *)
(* TableExtractor.process_tables_sequentially (master headers, header      *)
(* resolution of the later tables, split-column merge, pd.concat, grouping *)
(* by column structure).                                                   *)
(*                                                                         *)
(* A Python str is a sequence of one-character strings, so that lower(),   *)
(* strip(), isdigit() and the substring test are computed, not assumed.    *)
(* A DataFrame is [columns, rows]: the labels in order (pandas allows      *)
(* repeated labels) and the rows as sequences of cells, position by        *)
(* position.                                                               *)
(***************************************************************************)
EXTENDS Naturals, Sequences, FiniteSets, TLC

\* The longest document the engine returns in the model.
MaxTables == 3

(***************************************************************************)
(* Python str operations                                                   *)
(***************************************************************************)
DigitChars == <<"0", "1", "2", "3", "4", "5", "6", "7", "8", "9">>

UpperChars == <<"A", "B", "C", "D", "E", "F", "G", "H", "I", "J", "K", "L", "M",
                "N", "O", "P", "Q", "R", "S", "T", "U", "V", "W", "X", "Y", "Z">>

LowerChars == <<"a", "b", "c", "d", "e", "f", "g", "h", "i", "j", "k", "l", "m",
                "n", "o", "p", "q", "r", "s", "t", "u", "v", "w", "x", "y", "z">>

\* The cell pandas holds for a missing value (NaN / None); no str contains it.
NaN == <<"<NaN>">>

Range(s) == {s[i] : i \in 1..Len(s)}

\* str.isdigit(): non-empty and every character a digit.
IsDigit(s) == Len(s) > 0 /\ \A i \in 1..Len(s) : s[i] \in Range(DigitChars)

LowerChar(c) ==
    IF c \in Range(UpperChars)
    THEN LowerChars[CHOOSE i \in 1..Len(UpperChars) : UpperChars[i] = c]
    ELSE c

\* str.lower()
Lower(s) == [i \in 1..Len(s) |-> LowerChar(s[i])]

\* str.strip(): leading and trailing blanks removed.
Strip(s) ==
    LET keep == {i \in 1..Len(s) : s[i] # " "}
    IN IF keep = {} THEN <<>>
       ELSE LET lo == CHOOSE i \in keep : \A j \in keep : i <= j
                hi == CHOOSE i \in keep : \A j \in keep : j <= i
            IN SubSeq(s, lo, hi)

\* `sub in s`
Contains(s, sub) ==
    \E i \in 1..(Len(s) + 1) :
        /\ i + Len(sub) - 1 <= Len(s)
        /\ SubSeq(s, i, i + Len(sub) - 1) = sub

\* ' '.join(parts)
RECURSIVE JoinSp(_)
JoinSp(parts) ==
    IF parts = <<>> THEN <<>>
    ELSE IF Len(parts) = 1 THEN parts[1]
    ELSE parts[1] \o <<" ">> \o JoinSp(Tail(parts))

\* str(n) of a natural number.
RECURSIVE IntToStr(_)
IntToStr(n) ==
    IF n < 10 THEN <<DigitChars[n + 1]>>
    ELSE IntToStr(n \div 10) \o <<DigitChars[(n % 10) + 1]>>

\* [str(val).lower() for val in ...] and [str(val).strip() for val in ...]
LowerAll(cells) == [i \in 1..Len(cells) |-> Lower(cells[i])]

StripAll(cells) == [i \in 1..Len(cells) |-> Strip(cells[i])]

\* str.replace(' ', '_')
ReplaceSpaces(s) == [i \in 1..Len(s) |-> IF s[i] = " " THEN "_" ELSE s[i]]

(***************************************************************************)
(* Sequence helpers                                                        *)
(***************************************************************************)
\* list.index(x): the first position of x (1-based); 0 when absent.
IndexOf(s, x) ==
    IF x \in Range(s) THEN CHOOSE i \in 1..Len(s) : s[i] = x /\ \A j \in 1..(i - 1) : s[j] # x
    ELSE 0

Count(s, x) == Cardinality({i \in 1..Len(s) : s[i] = x})

HasDuplicates(s) == \E i, j \in 1..Len(s) : i # j /\ s[i] = s[j]

\* s without the positions in drop.
RECURSIVE RemoveAt(_, _)
RemoveAt(s, drop) ==
    IF s = <<>> THEN <<>>
    ELSE LET rest == RemoveAt(SubSeq(s, 1, Len(s) - 1), drop)
         IN IF Len(s) \in drop THEN rest ELSE Append(rest, s[Len(s)])

RECURSIVE Flatten(_)
Flatten(ss) == IF ss = <<>> THEN <<>> ELSE ss[1] \o Flatten(Tail(ss))

RECURSIVE SumSeq(_)
SumSeq(ns) == IF ns = <<>> THEN 0 ELSE ns[1] + SumSeq(Tail(ns))

(***************************************************************************)
(* pandas DataFrame operations                                             *)
(***************************************************************************)
\* pd.DataFrame() and pd.DataFrame([]): no columns, no rows.
EmptyFrame == [columns |-> <<>>, rows |-> <<>>]

\* DataFrame.empty: some axis has length 0.
IsEmptyFrame(df) == Len(df.columns) = 0 \/ Len(df.rows) = 0

\* df.to_dict('records'): one dict per row, an ordered sequence of <<key, value>>
\* pairs. A dict holds a key once: a repeated label keeps the place of its
\* first occurrence and the value of its last.
RecordOf(cols, row) ==
    LET later == {i \in 1..Len(cols) : \E j \in 1..(i - 1) : cols[j] = cols[i]}
        keys == RemoveAt(cols, later)
        LastPos(k) == CHOOSE i \in 1..Len(cols) :
                          cols[i] = k /\ \A j \in (i + 1)..Len(cols) : cols[j] # k
    IN [n \in 1..Len(keys) |-> <<keys[n], row[LastPos(keys[n])]>>]

ToDictRecords(df) == [r \in 1..Len(df.rows) |-> RecordOf(df.columns, df.rows[r])]

\* pd.DataFrame(records) for records that all have the keys of the first one,
\* as to_dict('records') writes them.
FrameOfRecords(records) ==
    IF records = <<>> THEN EmptyFrame
    ELSE [columns |-> [j \in 1..Len(records[1]) |-> records[1][j][1]],
          rows |-> [r \in 1..Len(records) |->
                       [j \in 1..Len(records[r]) |-> records[r][j][2]]]]

\* df.fillna(''): every missing cell becomes the empty string.
FillNa(df) ==
    [df EXCEPT !.rows = [r \in 1..Len(df.rows) |->
                            [j \in 1..Len(df.rows[r]) |->
                                IF df.rows[r][j] = NaN THEN <<>> ELSE df.rows[r][j]]]]

\* all(str(col).isdigit() for col in columns); all() of nothing is True.
AllDigitLabels(cols) == \A i \in 1..Len(cols) : IsDigit(cols[i])

(***************************************************************************)
(* Strings of the model's documents                                        *)
(***************************************************************************)
sEmpty == <<>>
sDate == <<"D", "a", "t", "e">>
sAmount == <<"A", "m", "o", "u", "n", "t">>
sBalancePadded == <<" ", "B", "a", "l", "a", "n", "c", "e">>
s0 == <<"0">>
s1 == <<"1">>
s2 == <<"2">>
s7 == <<"7">>
cJan == <<"2", "0", "2", "4", "-", "0", "1", "-", "0", "1">>
cFeb == <<"2", "0", "2", "4", "-", "0", "2", "-", "0", "1">>
cTea == <<"t", "e", "a">>
cBus == <<" ", "b", "u", "s">>
c100 == <<"1", "0", "0">>

\* The tables the engine's export_to_dataframe() may yield for one detected
\* table: named labels, placeholder labels with and without a header row,
\* an unlabelled (split) column, no rows.
EngineFrames ==
    { [columns |-> <<sDate, sAmount>>, rows |-> <<<<cJan, c100>>, <<cFeb, c100>>>>],
      [columns |-> <<sDate, sAmount>>, rows |-> <<>>],
      [columns |-> <<sDate, sEmpty, sAmount>>, rows |-> <<<<cJan, cBus, c100>>>>],
      [columns |-> <<sEmpty, sDate>>, rows |-> <<<<cTea, cJan>>>>],
      [columns |-> <<s0, s1>>, rows |-> <<<<sDate, sAmount>>, <<cJan, c100>>>>],
      [columns |-> <<s0, s1>>, rows |-> <<<<sBalancePadded, s7>>, <<cFeb, NaN>>>>],
      [columns |-> <<s0, s1>>, rows |-> <<<<cJan, c100>>, <<cFeb, c100>>>>],
      [columns |-> <<s0, s1, s2>>, rows |-> <<<<cJan, cTea, c100>>>>],
      [columns |-> <<s0, s1, s2>>, rows |-> <<<<sDate, sEmpty, sEmpty>>, <<cJan, cTea, cBus>>>>],
      [columns |-> <<s0, s1, s2>>, rows |-> <<<<sDate, sDate, sEmpty>>, <<cFeb, cTea, cBus>>>>] }

\* Labels and cells of statement tables.
sValueLabel == <<"V", "a", "l", "u", "e">>
sValueDateLabel == <<"V", "a", "l", "u", "e", " ", "D", "a", "t", "e">>
sParticulars == <<"P", "a", "r", "t", "i", "c", "u", "l", "a", "r", "s">>
sDescription == <<"D", "e", "s", "c", "r", "i", "p", "t", "i", "o", "n">>
cNaNText == <<"N", "a", "N">>
cNone == <<"N", "o", "n", "e">>
cNULL == <<"N", "U", "L", "L">>

\* Tables of a bank statement as export_to_dataframe() yields them when the
\* header row was recognised: the same layout twice, a layout with its two
\* columns swapped, the 'Value' / 'Value Date' variants, cells that spell a
\* missing value, a table without rows, and one with placeholder labels.
StatementFrames ==
    { [columns |-> <<sDate, sAmount>>, rows |-> <<<<cJan, c100>>>>],
      [columns |-> <<sAmount, sDate>>, rows |-> <<<<c100, cFeb>>>>],
      [columns |-> <<sValueLabel, sParticulars>>, rows |-> <<<<cJan, cTea>>>>],
      [columns |-> <<sValueDateLabel, sParticulars>>, rows |-> <<<<cFeb, cBus>>>>],
      [columns |-> <<sDate, sDescription, sAmount>>, rows |-> <<<<cJan, cTea, c100>>>>],
      [columns |-> <<sDate, sDescription, sAmount>>,
       rows |-> <<<<cFeb, cNone, cNaNText>>, <<cNULL, cBus, c100>>>>],
      [columns |-> <<sDate, sDescription, sAmount>>, rows |-> <<>>],
      [columns |-> <<s0, s1>>, rows |-> <<<<cJan, c100>>>>] }

(***************************************************************************)
(* Header resolution and split-column merge of one later table             *)
(***************************************************************************)
kw_date == <<"d", "a", "t", "e">>
kw_description == <<"d", "e", "s", "c", "r", "i", "p", "t", "i", "o", "n">>
kw_amount == <<"a", "m", "o", "u", "n", "t">>
kw_balance == <<"b", "a", "l", "a", "n", "c", "e">>
kw_transaction == <<"t", "r", "a", "n", "s", "a", "c", "t", "i", "o", "n">>
kw_credit == <<"c", "r", "e", "d", "i", "t">>
kw_debit == <<"d", "e", "b", "i", "t">>
kw_particulars == <<"p", "a", "r", "t", "i", "c", "u", "l", "a", "r", "s">>
kw_narration == <<"n", "a", "r", "r", "a", "t", "i", "o", "n">>
kw_details == <<"d", "e", "t", "a", "i", "l", "s">>
kw_ref == <<"r", "e", "f">>
kw_cheque == <<"c", "h", "e", "q", "u", "e">>
kw_check == <<"c", "h", "e", "c", "k">>
kw_withdrawal == <<"w", "i", "t", "h", "d", "r", "a", "w", "a", "l">>
kw_deposit == <<"d", "e", "p", "o", "s", "i", "t">>

header_keywords ==
    {kw_date, kw_description, kw_amount, kw_balance, kw_transaction, kw_credit,
     kw_debit, kw_particulars, kw_narration, kw_details, kw_ref, kw_cheque,
     kw_check, kw_withdrawal, kw_deposit}

\* ' '.join(str(val).lower() for val in first_row.values if pd.notna(val))
first_row_text(row) ==
    JoinSp(LowerAll(RemoveAt(row, {i \in 1..Len(row) : row[i] = NaN})))

first_row_looks_like_headers(df) ==
    /\ Len(df.rows) > 0
    /\ \E keyword \in header_keywords : Contains(first_row_text(df.rows[1]), keyword)

\* Mutant: f'Column_{i}', numbered from 0.
generic_headers_ZeroBased(n) ==
    [i \in 1..n |-> <<"C", "o", "l", "u", "m", "n", "_">> \o IntToStr(i - 1)]

\* [f'Column_{i+1}' for i in range(n)]
generic_headers(n) ==
    [i \in 1..n |-> <<"C", "o", "l", "u", "m", "n", "_">> \o IntToStr(i)]

\* Mutant: the isdigit test is left out.
HasValidHeaders_NoDigitCheck(first_table) == first_table.columns # <<>>

\* Mutant: placeholder labels pass when the first row carries a keyword.
HasValidHeaders_KeywordRow(first_table) ==
    /\ first_table.columns # <<>>
    /\ \/ ~AllDigitLabels(first_table.columns)
       \/ first_row_looks_like_headers(FillNa(FrameOfRecords(first_table.data)))

\* first_table.get('columns') and not all(str(col).isdigit() for col in ...)
HasValidHeaders(first_table) ==
    first_table.columns # <<>> /\ ~AllDigitLabels(first_table.columns)

\* Mutant: no table is skipped.
IsSkipped_Never(table) == FALSE

\* "No data in this table. Skipping." / "Table is empty. Skipping."
IsSkipped(table) ==
    table.data = <<>> \/ IsEmptyFrame(FrameOfRecords(table.data))

\* The branch taken for a later table (df already through fillna('')):
\* "first_row", "master", "generic" for placeholder labels, "named" otherwise.
HeaderBranch(df, master) ==
    IF AllDigitLabels(df.columns)
    THEN IF first_row_looks_like_headers(df) THEN "first_row"
         ELSE IF Len(df.columns) = Len(master) THEN "master"
         ELSE "generic"
    ELSE "named"

\* Mutant: the header row is adopted but stays among the rows.
ResolveHeaders_KeepHeaderRow(df, master) ==
    LET branch == HeaderBranch(df, master)
    IN IF branch = "first_row"
       THEN [columns |-> StripAll(df.rows[1]), rows |-> df.rows]
       ELSE IF branch = "master" THEN [df EXCEPT !.columns = master]
       ELSE IF branch = "generic"
       THEN [df EXCEPT !.columns = generic_headers(Len(df.columns))]
       ELSE df

\* Mutant: the first row is dropped before the master headers are applied.
ResolveHeaders_MasterDropsRow(df, master) ==
    LET branch == HeaderBranch(df, master)
    IN IF branch = "first_row"
       THEN [columns |-> StripAll(df.rows[1]), rows |-> Tail(df.rows)]
       ELSE IF branch = "master" THEN [columns |-> master, rows |-> Tail(df.rows)]
       ELSE IF branch = "generic"
       THEN [df EXCEPT !.columns = generic_headers(Len(df.columns))]
       ELSE df

ResolveHeaders(df, master) ==
    LET branch == HeaderBranch(df, master)
    IN IF branch = "first_row"
       THEN [columns |-> StripAll(df.rows[1]), rows |-> Tail(df.rows)]
       ELSE IF branch = "master" THEN [df EXCEPT !.columns = master]
       ELSE IF branch = "generic"
       THEN [df EXCEPT !.columns = generic_headers(Len(df.columns))]
       ELSE df

\* What the try block of the merge does: "none" ('' is no label, or the first
\* one), "merged", or "failed" (an exception, caught: df is left as it was).
\* df[label] is a Series only when the label occurs once; for a repeated
\* label it is a DataFrame, which has no .str accessor.
MergeOutcome(df) ==
    LET cols == df.columns
        empty_col_index == IndexOf(cols, sEmpty)
    IN IF empty_col_index = 0 THEN "none"
       ELSE IF empty_col_index = 1 THEN "none"
       ELSE IF Count(cols, cols[empty_col_index - 1]) > 1 \/ Count(cols, sEmpty) > 1
       THEN "failed"
       ELSE "merged"

\* Mutant: the values are joined but the '' column is not dropped.
MergeSplitColumn_KeepsEmpty(df) ==
    IF MergeOutcome(df) = "merged"
    THEN LET e == IndexOf(df.columns, sEmpty)
             Joined(row) == Strip(row[e - 1]) \o <<" ">> \o Strip(row[e])
         IN [df EXCEPT !.rows = [r \in 1..Len(df.rows) |->
                                    [df.rows[r] EXCEPT ![e - 1] = Joined(df.rows[r])]]]
    ELSE df

MergeSplitColumn(df) ==
    IF MergeOutcome(df) = "merged"
    THEN LET e == IndexOf(df.columns, sEmpty)
             Joined(row) == Strip(row[e - 1]) \o <<" ">> \o Strip(row[e])
         IN [columns |-> RemoveAt(df.columns, {e}),
             rows |-> [r \in 1..Len(df.rows) |->
                          RemoveAt([df.rows[r] EXCEPT ![e - 1] = Joined(df.rows[r])], {e})]]
    ELSE df

(***************************************************************************)
(* pd.concat(frames, ignore_index=True)                                    *)
(***************************************************************************)
\* The labels of all frames, each once, in the order first seen.
RECURSIVE UnionLabels(_)
UnionLabels(frames) ==
    IF frames = <<>> THEN <<>>
    ELSE LET before == UnionLabels(SubSeq(frames, 1, Len(frames) - 1))
             cols == frames[Len(frames)].columns
             seen == {i \in 1..Len(cols) :
                          \/ cols[i] \in Range(before)
                          \/ \E j \in 1..(i - 1) : cols[j] = cols[i]}
         IN before \o RemoveAt(cols, seen)

\* The frames concat aligns. A frame of shape (0, 0) is left out when some
\* other frame is not (pandas before 3.0: drop_empty); later versions keep it.
ConcatInputs(frames, drop_empty) ==
    LET non_empties == {i \in 1..Len(frames) :
                           Len(frames[i].columns) + Len(frames[i].rows) > 0}
    IN IF drop_empty /\ non_empties # {}
       THEN RemoveAt(frames, (1..Len(frames)) \ non_empties)
       ELSE frames

AllSameLabels(frames) ==
    \A i, j \in 1..Len(frames) : frames[i].columns = frames[j].columns

\* concat reindexes each frame on the union of the labels unless all frames
\* have the same labels; a frame with a repeated label cannot be reindexed
\* (InvalidIndexError).
ConcatRaises(frames, drop_empty) ==
    LET objs == ConcatInputs(frames, drop_empty)
    IN /\ ~AllSameLabels(objs)
       /\ \E i \in 1..Len(objs) : HasDuplicates(objs[i].columns)

Reindex(df, labels) ==
    [r \in 1..Len(df.rows) |->
        [j \in 1..Len(labels) |->
            IF labels[j] \in Range(df.columns)
            THEN df.rows[r][IndexOf(df.columns, labels[j])]
            ELSE NaN]]

\* Mutant: a row equal to an earlier one is dropped.
PdConcat_DropDuplicates(frames, drop_empty) ==
    LET objs == ConcatInputs(frames, drop_empty)
        all_rows == IF AllSameLabels(objs)
                    THEN Flatten([i \in 1..Len(objs) |-> objs[i].rows])
                    ELSE Flatten([i \in 1..Len(objs) |->
                                     Reindex(objs[i], UnionLabels(objs))])
        repeats == {i \in 1..Len(all_rows) : \E j \in 1..(i - 1) : all_rows[j] = all_rows[i]}
    IN IF objs = <<>> THEN EmptyFrame
       ELSE [columns |-> IF AllSameLabels(objs) THEN objs[1].columns ELSE UnionLabels(objs),
             rows |-> RemoveAt(all_rows, repeats)]

PdConcat(frames, drop_empty) ==
    LET objs == ConcatInputs(frames, drop_empty)
    IN IF objs = <<>> THEN EmptyFrame
       ELSE IF AllSameLabels(objs)
       THEN [columns |-> objs[1].columns,
             rows |-> Flatten([i \in 1..Len(objs) |-> objs[i].rows])]
       ELSE [columns |-> UnionLabels(objs),
             rows |-> Flatten([i \in 1..Len(objs) |->
                                  Reindex(objs[i], UnionLabels(objs))])]

(***************************************************************************)
(* Grouping by column structure                                            *)
(***************************************************************************)
sValue == <<"v", "a", "l", "u", "e">>
sValueDate == <<"v", "a", "l", "u", "e", "_", "d", "a", "t", "e">>

NormalizedLabel_NoValueRule(col) == ReplaceSpaces(Strip(Lower(col)))

\* One label of get_normalized_column_key.
NormalizedLabel(col) ==
    LET col_lower == Strip(Lower(col))
    IN IF Contains(col_lower, sValue) /\ Contains(col_lower, kw_date) THEN sValueDate
       ELSE IF col_lower = sValue THEN sValueDate
       ELSE ReplaceSpaces(col_lower)

get_normalized_column_key(columns) ==
    [i \in 1..Len(columns) |-> NormalizedLabel(columns[i])]

columns_are_similar_AsSets(cols1, cols2) ==
    Range(get_normalized_column_key(cols1)) = Range(get_normalized_column_key(cols2))

columns_are_similar(cols1, cols2) ==
    IF Len(cols1) # Len(cols2) THEN FALSE
    ELSE get_normalized_column_key(cols1) = get_normalized_column_key(cols2)

MatchingGroup_LatestOnly(groups, columns) ==
    IF groups # <<>> /\ columns_are_similar(columns, groups[Len(groups)].key)
    THEN Len(groups) ELSE 0

\* The position in column_groups (a dict, in insertion order) of the first
\* group whose key is similar to columns; 0 when there is none.
MatchingGroup(groups, columns) ==
    LET hits == {g \in 1..Len(groups) : columns_are_similar(columns, groups[g].key)}
    IN IF hits = {} THEN 0 ELSE CHOOSE g \in hits : \A h \in hits : g <= h

AddToGroups_KeepsOwnLabels(groups, i, df) ==
    LET g == MatchingGroup(groups, df.columns)
    IN IF g # 0
       THEN [groups EXCEPT ![g].tables =
                Append(@, [table_number |-> i, dataframe |-> df])]
       ELSE Append(groups, [key |-> df.columns,
                            tables |-> <<[table_number |-> i, dataframe |-> df]>>])

\* One iteration of the grouping loop for the i-th processed frame.
AddToGroups(groups, i, df) ==
    LET g == MatchingGroup(groups, df.columns)
    IN IF g # 0
       THEN [groups EXCEPT ![g].tables =
                Append(@, [table_number |-> i,
                           dataframe |-> [df EXCEPT !.columns = groups[g].key]])]
       ELSE Append(groups, [key |-> df.columns,
                            tables |-> <<[table_number |-> i, dataframe |-> df]>>])

MergedTable_NumberedByFirstMember(groups, group_idx) ==
    LET tables_of == groups[group_idx].tables
        merged_df == PdConcat([t \in 1..Len(tables_of) |-> tables_of[t].dataframe], TRUE)
    IN [table_number |-> tables_of[1].table_number,
        columns |-> groups[group_idx].key,
        row_count |-> Len(merged_df.rows),
        data |-> ToDictRecords(merged_df),
        merged_from |-> [t \in 1..Len(tables_of) |-> tables_of[t].table_number]]

\* The entry of individual_tables for the group at position group_idx.
MergedTable(groups, group_idx) ==
    LET tables_of == groups[group_idx].tables
        merged_df == PdConcat([t \in 1..Len(tables_of) |-> tables_of[t].dataframe], TRUE)
    IN [table_number |-> group_idx,
        columns |-> groups[group_idx].key,
        row_count |-> Len(merged_df.rows),
        data |-> ToDictRecords(merged_df),
        merged_from |-> [t \in 1..Len(tables_of) |-> tables_of[t].table_number]]

(***************************************************************************)
(* State                                                                   *)
(***************************************************************************)
VARIABLES
    pc,                 \* where the run is
    tables,             \* all_tables["tables"], then data['tables']
    master_headers,     \* None is <<>>
    table_pos,          \* the table the loop over data['tables'][1:] is at
    all_processed_dfs,
    trail,              \* per appended frame: its table, the branch taken, the
                        \* frame after header resolution, how the merge went
    skipped,            \* the table numbers printed as skipped
    final_df,
    outcome,            \* how process_tables_sequentially ended
    column_groups,
    group_pos,          \* the frame the grouping loop is at
    individual_tables,
    route_pc,           \* where _convert_with_config is; "idle" without a request
    requested_formats,
    current_user,       \* the UserResponse the request was authenticated with
    db_user_credits,    \* users.credits as stored
    conversion,         \* the conversions row and the updates written to it
    raw_tables_data,    \* the extraction result without its tables
    parsed_data,
    credit_transactions,
    response,           \* what the request answers
    earlier_runs,       \* the groups of the earlier runs of the grouper on
                        \* these resolved tables
    sample_transactions,
    page_pc,            \* where parse_bank_statement is; "idle" when not called
    pages_text,         \* the number of page texts extracted
    first_page_transactions,
    headers,
    page_tasks,         \* per page 2..N: "created", "running" or "done"
    page_results,       \* per page 2..N: what its task returned
    page_replies,       \* per page 2..N: what the language model answered
    completion_order,   \* the pages 2..N in the order their tasks finished
    results_from_other_pages,
    all_transactions,
    combined,           \* how many results the combining loop has appended
    parse_outcome,
    requests            \* the requests one user has in flight at the same time

extractor_vars == <<pc, tables, master_headers, table_pos, all_processed_dfs, trail,
                    skipped, final_df, outcome, column_groups, group_pos,
                    individual_tables>>

route_vars == <<route_pc, requested_formats, current_user, db_user_credits, conversion,
                raw_tables_data, parsed_data, credit_transactions, response>>

page_vars == <<page_pc, pages_text, first_page_transactions, headers, page_tasks, page_replies,
               page_results, completion_order, results_from_other_pages,
               all_transactions, combined, parse_outcome>>

vars == <<extractor_vars, route_vars, earlier_runs, sample_transactions, page_vars,
          requests>>

\* A TableExtractor as constructed, about to extract.
ExtractorInit ==
    /\ pc = "extract"
    /\ tables = <<>>
    /\ master_headers = <<>>
    /\ table_pos = 0
    /\ all_processed_dfs = <<>>
    /\ trail = <<>>
    /\ skipped = {}
    /\ final_df = EmptyFrame
    /\ outcome = "running"
    /\ column_groups = <<>>
    /\ group_pos = 0
    /\ individual_tables = <<>>
    /\ earlier_runs = <<>>
    /\ sample_transactions = <<>>

NoParsedData == [transactions |-> <<>>, total_transactions |-> 0,
                 has_detected_headers |-> FALSE, detected_headers |-> <<>>]

\* No request yet, for a user holding the given credits.
NoRequest(credits) ==
    /\ route_pc = "idle"
    /\ requested_formats = <<>>
    /\ current_user = [credits |-> credits]
    /\ db_user_credits = credits
    /\ conversion = [status |-> "none", updates |-> <<>>]
    /\ raw_tables_data = [has_error |-> FALSE, pages_processed |-> 0]
    /\ parsed_data = NoParsedData
    /\ credit_transactions = <<>>
    /\ response = [status |-> "none", transactions |-> <<>>]

\* What a page's processing returns: a list of transactions. extend() and
\* len() raise on a value that is no list.
NoTransactions == [is_list |-> TRUE, items |-> <<>>]

\* parse_bank_statement with the given position, nothing done yet.
ParserAt(position) ==
    /\ page_pc = position
    /\ pages_text = 0
    /\ first_page_transactions = NoTransactions
    /\ headers = <<>>
    /\ page_tasks = <<>>
    /\ page_results = <<>>
    /\ page_replies = <<>>
    /\ completion_order = <<>>
    /\ results_from_other_pages = <<>>
    /\ all_transactions = NoTransactions
    /\ combined = 0
    /\ parse_outcome = "running"

\* The extractor used on its own: no request is ever made.
\* The requests that may run at the same time for one user.
Requests == {1, 2}

\* No request of the user has been received.
NoRequests ==
    requests = [r \in Requests |-> [pc |-> "idle", credits |-> 0, pages_processed |-> 0]]

Init == ExtractorInit /\ NoRequest(0) /\ ParserAt("idle") /\ NoRequests

(***************************************************************************)
(* extract_tables_from_pdf: the loop over result.document.tables           *)
(***************************************************************************)
\* export_to_dataframe() succeeds: table_info is appended.
ExtractTable ==
    /\ pc = "extract"
    /\ Len(tables) < MaxTables
    /\ \E table_df \in EngineFrames :
           tables' = Append(tables, [table_number |-> Len(tables) + 1,
                                     has_error |-> FALSE,
                                     columns |-> table_df.columns,
                                     row_count |-> Len(table_df.rows),
                                     data |-> ToDictRecords(table_df)])
    /\ UNCHANGED <<pc, master_headers, table_pos, all_processed_dfs, trail, skipped,
                   final_df, outcome, column_groups, group_pos, individual_tables>>
    /\ UNCHANGED <<route_vars, earlier_runs, sample_transactions>>
    /\ UNCHANGED <<page_vars, requests>>

\* The same step for a document whose tables are statement tables.
ExtractStatementTable ==
    /\ pc = "extract"
    /\ Len(tables) < MaxTables
    /\ \E table_df \in StatementFrames :
           tables' = Append(tables, [table_number |-> Len(tables) + 1,
                                     has_error |-> FALSE,
                                     columns |-> table_df.columns,
                                     row_count |-> Len(table_df.rows),
                                     data |-> ToDictRecords(table_df)])
    /\ UNCHANGED <<pc, master_headers, table_pos, all_processed_dfs, trail, skipped,
                   final_df, outcome, column_groups, group_pos, individual_tables>>
    /\ UNCHANGED <<route_vars, earlier_runs, sample_transactions>>
    /\ UNCHANGED <<page_vars, requests>>

\* The export raises: an entry with table_number and error only is appended
\* (no 'columns', no 'data': .get() gives None, here <<>>).
ExtractTableError ==
    /\ pc = "extract"
    /\ Len(tables) < MaxTables
    /\ tables' = Append(tables, [table_number |-> Len(tables) + 1,
                                 has_error |-> TRUE,
                                 columns |-> <<>>,
                                 row_count |-> 0,
                                 data |-> <<>>])
    /\ UNCHANGED <<pc, master_headers, table_pos, all_processed_dfs, trail, skipped,
                   final_df, outcome, column_groups, group_pos, individual_tables>>
    /\ UNCHANGED <<route_vars, earlier_runs, sample_transactions>>
    /\ UNCHANGED <<page_vars, requests>>

\* return all_tables; the caller hands it to process_tables_sequentially.
ExtractDone ==
    /\ pc = "extract"
    /\ pc' = "find_master"
    /\ UNCHANGED <<tables, master_headers, table_pos, all_processed_dfs, trail, skipped,
                   final_df, outcome, column_groups, group_pos, individual_tables>>
    /\ UNCHANGED <<route_vars, earlier_runs, sample_transactions>>
    /\ UNCHANGED <<page_vars, requests>>

(***************************************************************************)
(* process_tables_sequentially                                             *)
(***************************************************************************)
\* No tables: the empty result. Otherwise the first table gives the master
\* headers and its frame, or ("The first table does not contain valid
\* headers. Cannot proceed.") the empty result.
FindMasterHeaders ==
    /\ pc = "find_master"
    /\ IF tables = <<>>
       THEN /\ outcome' = "no_tables"
            /\ pc' = "done"
            /\ UNCHANGED <<master_headers, table_pos, all_processed_dfs, trail>>
       ELSE LET first_table == tables[1]
                first_df == FillNa(FrameOfRecords(first_table.data))
            IN IF HasValidHeaders(first_table)
               THEN /\ master_headers' = first_table.columns
                    /\ all_processed_dfs' = <<first_df>>
                    /\ trail' = <<[table_number |-> first_table.table_number,
                                   branch |-> "first",
                                   resolved |-> first_df,
                                   merge |-> "none"]>>
                    /\ table_pos' = 2
                    /\ pc' = "tables_loop"
                    /\ UNCHANGED outcome
               ELSE /\ outcome' = "no_master_headers"
                    /\ pc' = "done"
                    /\ UNCHANGED <<master_headers, table_pos, all_processed_dfs, trail>>
    /\ UNCHANGED <<tables, skipped, final_df, column_groups, group_pos, individual_tables>>
    /\ UNCHANGED <<route_vars, earlier_runs, sample_transactions>>
    /\ UNCHANGED <<page_vars, requests>>

\* One iteration of the loop over data['tables'][1:].
ProcessSubsequentTable ==
    /\ pc = "tables_loop"
    /\ table_pos <= Len(tables)
    /\ LET table == tables[table_pos]
           raw_df == FrameOfRecords(table.data)
       IN IF IsSkipped(table)
          THEN /\ skipped' = skipped \cup {table.table_number}
               /\ UNCHANGED <<all_processed_dfs, trail>>
          ELSE LET df == FillNa(raw_df)
                   resolved == ResolveHeaders(df, master_headers)
               IN /\ all_processed_dfs' = Append(all_processed_dfs, MergeSplitColumn(resolved))
                  /\ trail' = Append(trail, [table_number |-> table.table_number,
                                             branch |-> HeaderBranch(df, master_headers),
                                             resolved |-> resolved,
                                             merge |-> MergeOutcome(resolved)])
                  /\ UNCHANGED skipped
    /\ table_pos' = table_pos + 1
    /\ UNCHANGED <<pc, tables, master_headers, final_df, outcome, column_groups,
                   group_pos, individual_tables>>
    /\ UNCHANGED <<route_vars, earlier_runs, sample_transactions>>
    /\ UNCHANGED <<page_vars, requests>>

(***************************************************************************)
(* _extract_sample_transactions and _find_column                           *)
(***************************************************************************)
None == <<"<None>">>
max_samples == 3
DescriptionLimit == 50
date_names ==
    <<kw_date,
      <<"t", "r", "a", "n", "s", "a", "c", "t", "i", "o", "n", "_", "d", "a", "t", "e">>,
      <<"t", "r", "a", "n", "s", "_", "d", "a", "t", "e">>>>
description_names == <<kw_description, kw_particulars, kw_narration, kw_details>>
amount_names == <<kw_amount, kw_credit, kw_debit, kw_balance>>

\* The columns are walked once, and each is tried against every name.
find_column_ByColumnOrder(columns, possible_names) ==
    LET hits == {i \in 1..Len(columns) :
                    \E n \in 1..Len(possible_names) :
                        Contains(Lower(columns[i]), Lower(possible_names[n]))}
    IN IF hits = {} THEN None
       ELSE columns[CHOOSE i \in hits : \A j \in hits : i <= j]

\* for name in possible_names: for i, col in enumerate(df_columns_lower):
\* the first name some column contains decides, and of the columns that
\* contain it the first one is returned.
find_column(columns, possible_names) ==
    LET Holders(n) == {i \in 1..Len(columns) :
                          Contains(Lower(columns[i]), Lower(possible_names[n]))}
        found == {n \in 1..Len(possible_names) : Holders(n) # {}}
    IN IF found = {} THEN None
       ELSE LET n == CHOOSE m \in found : \A k \in found : m <= k
            IN columns[CHOOSE i \in Holders(n) : \A j \in Holders(n) : i <= j]

\* if date_col: None and the empty label count as not found.
Found(col) == col # None /\ col # sEmpty

\* str(row[desc_col])[:50] + ('...' if len(str(row[desc_col])) > 50 else '')
Truncated(text) ==
    IF Len(text) > DescriptionLimit
    THEN SubSeq(text, 1, DescriptionLimit) \o <<".", ".", ".">>
    ELSE text

\* The sample of one row: the fields whose column was found.
SampleOf(columns, row, date_col, desc_col, amount_col) ==
    (IF Found(date_col)
     THEN <<<<kw_date, row[IndexOf(columns, date_col)]>>>> ELSE <<>>)
    \o (IF Found(desc_col)
        THEN <<<<kw_description, Truncated(row[IndexOf(columns, desc_col)])>>>> ELSE <<>>)
    \o (IF Found(amount_col)
        THEN <<<<kw_amount, row[IndexOf(columns, amount_col)]>>>> ELSE <<>>)

extract_sample_transactions(df) ==
    IF IsEmptyFrame(df) THEN <<>>
    ELSE LET date_col == find_column(df.columns, date_names)
             desc_col == find_column(df.columns, description_names)
             amount_col == find_column(df.columns, amount_names)
             head == SubSeq(df.rows, 1, IF Len(df.rows) < max_samples
                                        THEN Len(df.rows) ELSE max_samples)
         IN IF Found(date_col) \/ Found(desc_col) \/ Found(amount_col)
            THEN [r \in 1..Len(head) |->
                     SampleOf(df.columns, head[r], date_col, desc_col, amount_col)]
            ELSE <<>>

NewColumnGroups_Kept(previous) == previous

\* column_groups = {}: every run of the grouper starts from no groups,
\* whatever an earlier run built.
NewColumnGroups(previous) == <<>>

\* final_df = pd.concat(all_processed_dfs, ignore_index=True).fillna('');
\* an exception of concat leaves process_tables_sequentially.
Consolidate ==
    /\ pc = "tables_loop"
    /\ table_pos > Len(tables)
    /\ \E drop_empty \in BOOLEAN :
           IF ConcatRaises(all_processed_dfs, drop_empty)
           THEN /\ outcome' = "raised"
                /\ pc' = "done"
                /\ UNCHANGED <<final_df, group_pos, column_groups, sample_transactions>>
           ELSE /\ final_df' = FillNa(PdConcat(all_processed_dfs, drop_empty))
                /\ sample_transactions' = extract_sample_transactions(
                       FillNa(PdConcat(all_processed_dfs, drop_empty)))
                /\ column_groups' = NewColumnGroups(column_groups)
                /\ group_pos' = 1
                /\ pc' = "group_loop"
                /\ UNCHANGED outcome
    /\ UNCHANGED <<tables, master_headers, table_pos, all_processed_dfs, trail, skipped,
                   individual_tables>>
    /\ UNCHANGED <<route_vars, earlier_runs>>
    /\ UNCHANGED <<page_vars, requests>>

\* One iteration of the loop that fills column_groups.
GroupTable ==
    /\ pc = "group_loop"
    /\ group_pos <= Len(all_processed_dfs)
    /\ column_groups' = AddToGroups(column_groups, group_pos, all_processed_dfs[group_pos])
    /\ group_pos' = group_pos + 1
    /\ UNCHANGED <<pc, tables, master_headers, table_pos, all_processed_dfs, trail, skipped,
                   final_df, outcome, individual_tables>>
    /\ UNCHANGED <<route_vars, earlier_runs, sample_transactions>>
    /\ UNCHANGED <<page_vars, requests>>

\* The merged table of every group, numbered from 1; then the return.
MergeGroups ==
    /\ pc = "group_loop"
    /\ group_pos > Len(all_processed_dfs)
    /\ individual_tables' = [g \in 1..Len(column_groups) |-> MergedTable(column_groups, g)]
    /\ outcome' = "ok"
    /\ pc' = "done"
    /\ UNCHANGED <<tables, master_headers, table_pos, all_processed_dfs, trail, skipped,
                   final_df, column_groups, group_pos>>
    /\ UNCHANGED <<route_vars, earlier_runs, sample_transactions>>
    /\ UNCHANGED <<page_vars, requests>>

MaxRuns == 2

\* The grouper is run once more on the resolved tables of a completed run:
\* what the run before built is set aside for comparison.
GroupAgain ==
    /\ pc = "done"
    /\ outcome = "ok"
    /\ Len(earlier_runs) + 1 < MaxRuns
    /\ earlier_runs' = Append(earlier_runs, [column_groups |-> column_groups,
                                              individual_tables |-> individual_tables])
    /\ column_groups' = NewColumnGroups(column_groups)
    /\ individual_tables' = <<>>
    /\ group_pos' = 1
    /\ outcome' = "running"
    /\ pc' = "group_loop"
    /\ UNCHANGED <<tables, master_headers, table_pos, all_processed_dfs, trail, skipped,
                   final_df>>
    /\ UNCHANGED <<route_vars, sample_transactions>>
    /\ UNCHANGED <<page_vars, requests>>

Next ==
    \/ ExtractTable
    \/ ExtractTableError
    \/ ExtractDone
    \/ FindMasterHeaders
    \/ ProcessSubsequentTable
    \/ Consolidate
    \/ GroupTable
    \/ MergeGroups

Spec == Init /\ [][Next]_vars

\* process_tables_sequentially on the tables of a statement.
StatementNext ==
    \/ ExtractStatementTable
    \/ ExtractTableError
    \/ ExtractDone
    \/ FindMasterHeaders
    \/ ProcessSubsequentTable
    \/ Consolidate
    \/ GroupTable
    \/ MergeGroups
    \/ GroupAgain

StatementSpec == Init /\ [][StatementNext]_vars

(***************************************************************************)
(* convert_to_structured_format and DataConverter.convert_to_formats       *)
(***************************************************************************)
MaxCredits == 2
MaxPages == 2
MaxRequestTables == 2

\* ['nan', 'none', 'null']
missing_spellings ==
    { <<"n", "a", "n">>, <<"n", "o", "n", "e">>, <<"n", "u", "l", "l">> }

IsMissingValue_CaseSensitive(value) ==
    \/ value = NaN
    \/ value \in missing_spellings

\* pd.isna(value) or value is None or str(value).lower() in ['nan', 'none', 'null']
IsMissingValue(value) ==
    \/ value = NaN
    \/ Lower(value) \in missing_spellings

\* One cell of a transaction.
CleanValue(value) == IF IsMissingValue(value) THEN sEmpty ELSE Strip(value)

TransactionOf_OmitsEmpty(columns, row) ==
    LET empty == {j \in 1..Len(row) : CleanValue(row[j]) = sEmpty}
    IN RecordOf(RemoveAt(columns, empty),
                RemoveAt([j \in 1..Len(row) |-> CleanValue(row[j])], empty))

\* The transaction of one row: a dict keyed by the frame's labels.
TransactionOf(columns, row) ==
    RecordOf(columns, [j \in 1..Len(row) |-> CleanValue(row[j])])

convert_to_structured_format(df) ==
    IF IsEmptyFrame(df) THEN NoParsedData
    ELSE [transactions |-> [r \in 1..Len(df.rows) |-> TransactionOf(df.columns, df.rows[r])],
          total_transactions |-> Len(df.rows),
          has_detected_headers |-> TRUE,
          detected_headers |-> df.columns]

fCsv == <<"c", "s", "v">>
fExcel == <<"e", "x", "c", "e", "l">>
fJson == <<"j", "s", "o", "n">>
valid_formats == <<fCsv, fExcel, fJson>>

\* output_formats.split(","), as the caller may send it.
OutputFormats ==
    { <<fCsv>>, <<fExcel>>, <<fJson>>, <<fJson, <<" ", "C", "S", "V">>>>, <<fExcel, fJson>>,
      <<fCsv, fExcel, fJson>>, << <<"x", "m", "l">> >> }

RECURSIVE KeepValid(_)
KeepValid(fmts) ==
    IF fmts = <<>> THEN <<>>
    ELSE IF fmts[1] \in Range(valid_formats)
         THEN <<fmts[1]>> \o KeepValid(Tail(fmts))
         ELSE KeepValid(Tail(fmts))

\* The parse of output_formats: trimmed, lower-cased, the valid ones kept,
\* ["csv"] when none is.
ParseFormats(parts) ==
    LET kept == KeepValid(StripAll(LowerAll(parts)))
    IN IF kept = <<>> THEN <<fCsv>> ELSE kept

\* to_csv and to_excel raise ValueError("No transactions found to convert")
\* on an empty transaction list; to_json never raises.
ConvertToFormatsRaises(data, formats) ==
    /\ data.transactions = <<>>
    /\ \E i \in 1..Len(formats) : formats[i] \in {fCsv, fExcel}

(***************************************************************************)
(* routes/table_convert.py: _convert_with_config                           *)
(***************************************************************************)
\* A user holding some credits, no request yet.
RouteInit ==
    /\ ExtractorInit
    /\ \E credits \in 0..MaxCredits : NoRequest(credits)
    /\ ParserAt("idle")
    /\ NoRequests

\* db.update_conversion(conversion_id, {"status": ...}).
UpdateConversion(row, status) ==
    [status |-> status, updates |-> Append(row.updates, status)]

\* The upload is accepted: formats parsed, the record created with status
\* processing, extraction started on a document of some number of pages.
CreateConversion ==
    /\ route_pc = "idle"
    /\ \E parts \in OutputFormats : requested_formats' = ParseFormats(parts)
    /\ \E pages \in 1..MaxPages :
           raw_tables_data' = [has_error |-> FALSE, pages_processed |-> pages]
    /\ conversion' = [status |-> "processing", updates |-> <<>>]
    /\ route_pc' = "extract"
    /\ UNCHANGED <<current_user, db_user_credits, parsed_data, credit_transactions,
                   response>>
    /\ UNCHANGED <<extractor_vars, earlier_runs, sample_transactions>>
    /\ UNCHANGED <<page_vars, requests>>

\* extract_tables_from_pdf catches an exception of the engine and returns
\* the error result: no tables, pages_processed 0.
ExtractRaises ==
    /\ route_pc = "extract"
    /\ pc = "extract"
    /\ tables = <<>>
    /\ raw_tables_data' = [has_error |-> TRUE, pages_processed |-> 0]
    /\ pc' = "find_master"
    /\ UNCHANGED <<tables, master_headers, table_pos, all_processed_dfs, trail, skipped,
                   final_df, outcome, column_groups, group_pos, individual_tables>>
    /\ UNCHANGED <<route_pc, requested_formats, current_user, db_user_credits,
                   conversion, parsed_data, credit_transactions, response, earlier_runs,
                   sample_transactions>>
    /\ UNCHANGED <<page_vars, requests>>

\* The handler of the outer try: the record is set to failed and the
\* request answers 500.
FailConversion(row) ==
    /\ conversion' = UpdateConversion(row, "failed")
    /\ response' = [status |-> "500", transactions |-> <<>>]
    /\ route_pc' = "done"

HasErrorField_Never(data) == FALSE

\* 'error' in raw_tables_data
HasErrorField(data) == data.has_error

\* After extraction: the error field, then the credit check. The 402 raised
\* at the credit check is an Exception, so the outer handler runs as well.
CheckExtraction ==
    /\ route_pc = "extract"
    /\ pc = "find_master"
    /\ IF HasErrorField(raw_tables_data)
       THEN FailConversion(conversion)
       ELSE IF current_user.credits < raw_tables_data.pages_processed
            THEN FailConversion(UpdateConversion(conversion, "failed"))
            ELSE /\ route_pc' = "process"
                 /\ UNCHANGED <<conversion, response>>
    /\ UNCHANGED <<requested_formats, current_user, db_user_credits, raw_tables_data,
                   parsed_data, credit_transactions>>
    /\ UNCHANGED <<extractor_vars, earlier_runs, sample_transactions>>
    /\ UNCHANGED <<page_vars, requests>>

\* process_tables_sequentially has returned or raised; on a return the
\* ledger is converted to the structured format.
ConvertToStructured ==
    /\ route_pc = "process"
    /\ pc = "done"
    /\ IF outcome = "raised"
       THEN /\ FailConversion(conversion)
            /\ UNCHANGED parsed_data
       ELSE /\ parsed_data' = convert_to_structured_format(final_df)
            /\ route_pc' = "formats"
            /\ UNCHANGED <<conversion, response>>
    /\ UNCHANGED <<requested_formats, current_user, db_user_credits, raw_tables_data,
                   credit_transactions>>
    /\ UNCHANGED <<extractor_vars, earlier_runs, sample_transactions>>
    /\ UNCHANGED <<page_vars, requests>>

\* converter.convert_to_formats(parsed_data, requested_formats).
ConvertToFormats ==
    /\ route_pc = "formats"
    /\ IF ConvertToFormatsRaises(parsed_data, requested_formats)
       THEN FailConversion(conversion)
       ELSE /\ route_pc' = "credits"
            /\ UNCHANGED <<conversion, response>>
    /\ UNCHANGED <<requested_formats, current_user, db_user_credits, raw_tables_data,
                   parsed_data, credit_transactions>>
    /\ UNCHANGED <<extractor_vars, earlier_runs, sample_transactions>>
    /\ UNCHANGED <<page_vars, requests>>

\* new_credits = current_user.credits - pages_processed, stored.
UpdateUserCredits ==
    /\ route_pc = "credits"
    /\ db_user_credits' = current_user.credits - raw_tables_data.pages_processed
    /\ route_pc' = "credit_transaction"
    /\ UNCHANGED <<requested_formats, current_user, conversion, raw_tables_data,
                   parsed_data, credit_transactions, response>>
    /\ UNCHANGED <<extractor_vars, earlier_runs, sample_transactions>>
    /\ UNCHANGED <<page_vars, requests>>

\* db.create_credit_transaction with amount -pages_processed; the amount is
\* kept here as the number of credits taken.
CreateCreditTransaction ==
    /\ route_pc = "credit_transaction"
    /\ credit_transactions' = Append(credit_transactions, raw_tables_data.pages_processed)
    /\ route_pc' = "record"
    /\ UNCHANGED <<requested_formats, current_user, db_user_credits, conversion,
                   raw_tables_data, parsed_data, response>>
    /\ UNCHANGED <<extractor_vars, earlier_runs, sample_transactions>>
    /\ UNCHANGED <<page_vars, requests>>

\* The record is set to completed and the result returned.
CompleteConversion ==
    /\ route_pc = "record"
    /\ conversion' = UpdateConversion(conversion, "completed")
    /\ response' = [status |-> "200", transactions |-> parsed_data.transactions]
    /\ route_pc' = "done"
    /\ UNCHANGED <<requested_formats, current_user, db_user_credits, raw_tables_data,
                   parsed_data, credit_transactions>>
    /\ UNCHANGED <<extractor_vars, earlier_runs, sample_transactions>>
    /\ UNCHANGED <<page_vars, requests>>

\* The column layouts of the tables in an uploaded document: those of a
\* statement, without the 'Value' / 'Value Date' variants, which differ from
\* the others only for the grouper.
RequestLayouts ==
    { <<sDate, sAmount>>, <<sAmount, sDate>>, <<sDate, sDescription, sAmount>>,
      <<s0, s1>> }

\* The extractor's steps run inside the request: extraction while the route
\* waits for extract_tables_from_pdf, consolidation while it waits for
\* process_tables_sequentially.
RouteExtractStep ==
    \/ (/\ route_pc = "extract"
        /\ Len(tables) < MaxRequestTables
        /\ ExtractStatementTable
        /\ tables'[Len(tables')].columns \in RequestLayouts)
    \/ (route_pc = "extract" /\ Len(tables) < MaxRequestTables /\ ExtractTableError)

RouteExtractDone == route_pc = "extract" /\ ExtractDone

RouteProcessStep ==
    \/ (route_pc = "process" /\ FindMasterHeaders)
    \/ (route_pc = "process" /\ ProcessSubsequentTable)
    \/ (route_pc = "process" /\ Consolidate)
    \/ (route_pc = "process" /\ GroupTable)
    \/ (route_pc = "process" /\ MergeGroups)

RouteNext ==
    \/ CreateConversion
    \/ RouteExtractStep
    \/ RouteExtractDone
    \/ ExtractRaises
    \/ CheckExtraction
    \/ RouteProcessStep
    \/ ConvertToStructured
    \/ ConvertToFormats
    \/ UpdateUserCredits
    \/ CreateCreditTransaction
    \/ CompleteConversion

RouteSpec == RouteInit /\ [][RouteNext]_vars

(***************************************************************************)
(* The request when a call of the database fails                           *)
(***************************************************************************)
\* What a call of the database may come to: the row is written, the
\* service answers with an error status, or the HTTP client raises.
DbResults == {"stored", "rejected", "raises"}

\* The call the route is about to make raises: update_user_credits,
\* create_credit_transaction or the update of the record to completed
\* (update_conversion reads response.json() whatever the status). The
\* exception goes to the handler of the outer try.
DbCallRaises ==
    /\ route_pc \in {"credits", "credit_transaction", "record"}
    /\ FailConversion(conversion)
    /\ UNCHANGED <<requested_formats, current_user, db_user_credits, raw_tables_data,
                   parsed_data, credit_transactions>>
    /\ UNCHANGED <<extractor_vars, earlier_runs, sample_transactions>>
    /\ UNCHANGED <<page_vars, requests>>

\* update_user_credits and create_credit_transaction return None on an
\* error status; the route does not look at what they return and goes on.
DbCallRejected ==
    /\ route_pc \in {"credits", "credit_transaction"}
    /\ route_pc' = IF route_pc = "credits" THEN "credit_transaction" ELSE "record"
    /\ UNCHANGED <<requested_formats, current_user, db_user_credits, conversion,
                   raw_tables_data, parsed_data, credit_transactions, response>>
    /\ UNCHANGED <<extractor_vars, earlier_runs, sample_transactions>>
    /\ UNCHANGED <<page_vars, requests>>

BillingNext ==
    \/ RouteNext
    \/ DbCallRaises
    \/ DbCallRejected

BillingSpec == RouteInit /\ [][BillingNext]_vars

(***************************************************************************)
(* services/docling_parser.py: the per-page language-model pipeline        *)
(***************************************************************************)
MaxPageTexts == 3
MaxRowsPerPage == 2

conversion_vars == <<extractor_vars, route_vars, earlier_runs, sample_transactions>>

\* What one call of the language model may come to: a JSON object with some
\* transactions, the same inside a ```json fence, text that is no JSON, a
\* JSON object whose "transactions" is null, a list of one transaction
\* without keys, or an exception of the call.
PageReplies ==
    {[kind |-> "json", rows |-> n] : n \in 0..MaxRowsPerPage}
    \cup {[kind |-> k, rows |-> 1] : k \in {"fenced", "keyless"}}
    \cup {[kind |-> k, rows |-> 0] : k \in {"garbage", "null", "raises"}}

\* The transactions a reply holds for a page, each marked with its page and
\* its place on the page.
RowsOf(reply, page) ==
    [k \in 1..reply.rows |->
        [page |-> page, row |-> k,
         keys |-> IF reply.kind = "keyless" THEN <<>> ELSE <<sDate>>]]

\* _clean_and_load_json(response.text).get("transactions", []): the parsed
\* object's list, and [] when neither the text nor a fenced part of it
\* parses. A null makes len(transactions) raise inside the caller's try,
\* whose handler returns [] as well.
clean_and_load_json(reply, page) ==
    IF reply.kind \in {"json", "fenced", "keyless"}
    THEN [is_list |-> TRUE, items |-> RowsOf(reply, page)]
    ELSE NoTransactions

\* _process_first_page_async: (transactions, headers); ([], []) on an
\* exception. The headers are the keys of the first transaction.
process_first_page(reply) ==
    IF reply.kind = "raises" THEN [transactions |-> NoTransactions, headers |-> <<>>]
    ELSE LET transactions == clean_and_load_json(reply, 1)
         IN [transactions |-> transactions,
             headers |-> IF transactions.items # <<>>
                         THEN transactions.items[1].keys ELSE <<>>]

process_subsequent_page_AbortsOnFailure(reply, page) ==
    IF reply.kind \in {"raises", "garbage"} THEN [is_list |-> FALSE, items |-> <<>>]
    ELSE clean_and_load_json(reply, page)

\* _process_subsequent_page_async: the transactions; [] on an exception.
process_subsequent_page(reply, page) ==
    IF reply.kind = "raises" THEN NoTransactions
    ELSE clean_and_load_json(reply, page)

GatheredResults_AsCompleted(results, order) ==
    [i \in 1..Len(results) |-> results[order[i]]]

\* asyncio.gather(*tasks): the results in the order of the tasks, whatever
\* the order in which they finished.
GatheredResults(results, order) == results

PageInit == ExtractorInit /\ NoRequest(0) /\ ParserAt("extract") /\ NoRequests

\* Stage 1: the page texts; none is an error of the whole parse.
GetPagesText ==
    /\ page_pc = "extract"
    /\ \E page_count \in 0..MaxPageTexts :
           /\ pages_text' = page_count
           /\ IF page_count = 0
              THEN page_pc' = "done" /\ parse_outcome' = "raised"
              ELSE page_pc' = "first_page" /\ UNCHANGED parse_outcome
    /\ UNCHANGED <<first_page_transactions, headers, page_tasks, page_results,
                   page_replies, completion_order, results_from_other_pages,
                   all_transactions, combined>>
    /\ UNCHANGED <<conversion_vars, requests>>

PagesStarted_All(has_headers, page_count) == page_count > 1

\* if headers and page_count > 1
PagesStarted(has_headers, page_count) == has_headers /\ page_count > 1

\* Stage 2: page 1 is processed and awaited; then, with headers and more
\* pages, one task per remaining page is created and gathered.
ProcessFirstPage ==
    /\ page_pc = "first_page"
    /\ \E reply \in PageReplies :
           LET first == process_first_page(reply)
           IN /\ first_page_transactions' = first.transactions
              /\ all_transactions' = first.transactions
              /\ headers' = first.headers
              /\ IF PagesStarted(first.headers # <<>>, pages_text)
                 THEN /\ page_tasks' = [i \in 1..(pages_text - 1) |-> "created"]
                      /\ page_results' = [i \in 1..(pages_text - 1) |-> NoTransactions]
                      /\ page_replies' = [i \in 1..(pages_text - 1) |-> "pending"]
                      /\ page_pc' = "gather"
                 ELSE /\ page_pc' = "finalize"
                      /\ UNCHANGED <<page_tasks, page_results, page_replies>>
    /\ UNCHANGED <<pages_text, completion_order, results_from_other_pages, combined,
                   parse_outcome>>
    /\ UNCHANGED <<conversion_vars, requests>>

\* The event loop starts the tasks in the order they were created; task i
\* is the one of page i + 1. It runs up to its call of the model.
StartPageTask ==
    /\ page_pc = "gather"
    /\ \E i \in 1..Len(page_tasks) :
           /\ page_tasks[i] = "created"
           /\ \A j \in 1..(i - 1) : page_tasks[j] # "created"
           /\ page_tasks' = [page_tasks EXCEPT ![i] = "running"]
    /\ UNCHANGED <<page_pc, pages_text, first_page_transactions, headers, page_results,
                   page_replies, completion_order, results_from_other_pages,
                   all_transactions, combined, parse_outcome>>
    /\ UNCHANGED <<conversion_vars, requests>>

\* The model answers a running task, in any order among the tasks.
FinishPageTask ==
    /\ page_pc = "gather"
    /\ \E i \in 1..Len(page_tasks) :
           /\ page_tasks[i] = "running"
           /\ \E reply \in PageReplies :
                  /\ page_results' = [page_results EXCEPT
                                         ![i] = process_subsequent_page(reply, i + 1)]
                  /\ page_replies' = [page_replies EXCEPT ![i] = reply.kind]
           /\ page_tasks' = [page_tasks EXCEPT ![i] = "done"]
           /\ completion_order' = Append(completion_order, i)
    /\ UNCHANGED <<page_pc, pages_text, first_page_transactions, headers,
                   results_from_other_pages, all_transactions, combined, parse_outcome>>
    /\ UNCHANGED <<conversion_vars, requests>>

\* results_from_other_pages = await asyncio.gather(*tasks)
GatherReturns ==
    /\ page_pc = "gather"
    /\ \A i \in 1..Len(page_tasks) : page_tasks[i] = "done"
    /\ results_from_other_pages' = GatheredResults(page_results, completion_order)
    /\ page_pc' = "combine"
    /\ UNCHANGED <<pages_text, first_page_transactions, headers, page_tasks, page_results,
                   page_replies, completion_order, all_transactions, combined,
                   parse_outcome>>
    /\ UNCHANGED <<conversion_vars, requests>>

\* Stage 4, one iteration: all_transactions.extend(transaction_list), a
\* TypeError when transaction_list is no list; the handler of the whole
\* parse turns it into the ValueError the caller gets. all_transactions is
\* the very list first_page_transactions names, so both grow.
CombineResult ==
    /\ page_pc = "combine"
    /\ combined < Len(results_from_other_pages)
    /\ LET transaction_list == results_from_other_pages[combined + 1]
       IN IF transaction_list.is_list
          THEN /\ all_transactions' =
                      [all_transactions EXCEPT !.items = @ \o transaction_list.items]
               /\ first_page_transactions' = all_transactions'
               /\ combined' = combined + 1
               /\ UNCHANGED <<page_pc, parse_outcome>>
          ELSE /\ page_pc' = "done"
               /\ parse_outcome' = "raised"
               /\ UNCHANGED <<all_transactions, first_page_transactions, combined>>
    /\ UNCHANGED <<pages_text, headers, page_tasks, page_results, page_replies,
                   completion_order, results_from_other_pages>>
    /\ UNCHANGED <<conversion_vars, requests>>

\* The result is put together: len(all_transactions) raises when page 1
\* gave no list.
Finalize ==
    /\ \/ page_pc = "finalize"
       \/ page_pc = "combine" /\ combined = Len(results_from_other_pages)
    /\ page_pc' = "done"
    /\ parse_outcome' = IF all_transactions.is_list THEN "returned" ELSE "raised"
    /\ UNCHANGED <<pages_text, first_page_transactions, headers, page_tasks, page_results,
                   page_replies, completion_order, results_from_other_pages,
                   all_transactions, combined>>
    /\ UNCHANGED <<conversion_vars, requests>>

PageNext ==
    \/ GetPagesText
    \/ ProcessFirstPage
    \/ StartPageTask
    \/ FinishPageTask
    \/ GatherReturns
    \/ CombineResult
    \/ Finalize

PageSpec == PageInit /\ [][PageNext]_vars

(***************************************************************************)
(* Conversion requests of one user at the same time                        *)
(***************************************************************************)
MaxStoredCredits == 4

\* The user's stored credits when the first request arrives.
ConcurrentInit ==
    /\ ExtractorInit
    /\ \E credits \in 0..MaxStoredCredits : NoRequest(credits)
    /\ ParserAt("idle")
    /\ NoRequests

UnchangedByRequests ==
    UNCHANGED <<extractor_vars, requested_formats, current_user, route_pc, conversion,
                raw_tables_data, parsed_data, response, earlier_runs,
                sample_transactions, page_vars>>

\* get_current_user: the request's current_user is the user row as the
\* database holds it when the request is authenticated.
GetCurrentUser(r) ==
    /\ requests[r].pc = "idle"
    /\ requests' = [requests EXCEPT ![r].pc = "check", ![r].credits = db_user_credits]
    /\ UNCHANGED <<db_user_credits, credit_transactions>>
    /\ UnchangedByRequests

\* The pages of the document are counted and compared with
\* current_user.credits; with too few credits the request fails.
CheckCredits(r) ==
    /\ requests[r].pc = "check"
    /\ \E pages \in 1..MaxPages :
           requests' = [requests EXCEPT
               ![r].pages_processed = pages,
               ![r].pc = IF requests[r].credits < pages THEN "failed" ELSE "credits"]
    /\ UNCHANGED <<db_user_credits, credit_transactions>>
    /\ UnchangedByRequests

\* new_credits = current_user.credits - pages_processed;
\* db.update_user_credits(current_user.id, new_credits)
StoreUserCredits(r) ==
    /\ requests[r].pc = "credits"
    /\ db_user_credits' = requests[r].credits - requests[r].pages_processed
    /\ requests' = [requests EXCEPT ![r].pc = "credit_transaction"]
    /\ UNCHANGED credit_transactions
    /\ UnchangedByRequests

\* The credit transaction is written and the record set to completed.
CompleteRequest(r) ==
    /\ requests[r].pc = "credit_transaction"
    /\ credit_transactions' = Append(credit_transactions, requests[r].pages_processed)
    /\ requests' = [requests EXCEPT ![r].pc = "completed"]
    /\ UNCHANGED db_user_credits
    /\ UnchangedByRequests

ConcurrentNext ==
    \E r \in Requests :
        \/ GetCurrentUser(r)
        \/ CheckCredits(r)
        \/ StoreUserCredits(r)
        \/ CompleteRequest(r)

ConcurrentSpec == ConcurrentInit /\ [][ConcurrentNext]_vars

(***************************************************************************)
(* routes/websocket.py: process_pdf_with_streaming                         *)
(***************************************************************************)
UnchangedByStream ==
    UNCHANGED <<extractor_vars, current_user, parsed_data, earlier_runs,
                sample_transactions, requests>>

\* emit_error and the end of the task: an early return, or the handler of
\* the try, which sends the message and does nothing to the record.
EmitError ==
    /\ response' = [status |-> "error", transactions |-> <<>>]
    /\ route_pc' = "done"
    /\ UNCHANGED conversion

\* The pages are counted and compared with user.credits; with enough
\* credits the conversion record is created with status processing. The
\* output_formats of the start_conversion message are passed on as sent.
StreamStart ==
    /\ route_pc = "idle"
    /\ \E formats \in { <<fCsv>>, <<fJson>> } : requested_formats' = formats
    /\ \E pages \in 1..MaxPages :
           /\ raw_tables_data' = [has_error |-> FALSE, pages_processed |-> pages]
           /\ IF current_user.credits < pages
              THEN EmitError
              ELSE /\ conversion' = [status |-> "processing", updates |-> <<>>]
                   /\ route_pc' = "stream_text"
                   /\ UNCHANGED response
    /\ UNCHANGED <<db_user_credits, credit_transactions, page_vars>>
    /\ UnchangedByStream

\* _get_pdf_pages_text_streaming; without any page text the task reports
\* the error and returns.
StreamPagesText ==
    /\ route_pc = "stream_text"
    /\ \E page_count \in 0..MaxPageTexts :
           /\ pages_text' = page_count
           /\ IF page_count = 0
              THEN EmitError /\ UNCHANGED page_pc
              ELSE /\ page_pc' = "first_page"
                   /\ route_pc' = "stream_pages"
                   /\ UNCHANGED <<conversion, response>>
    /\ UNCHANGED <<requested_formats, db_user_credits, raw_tables_data,
                   credit_transactions, first_page_transactions, headers, page_tasks,
                   page_results, page_replies, completion_order,
                   results_from_other_pages, all_transactions, combined, parse_outcome>>
    /\ UnchangedByStream

\* The pages are processed as in parse_bank_statement: page 1, then the
\* tasks of the other pages, gathered and appended.
StreamPageStep ==
    \/ (route_pc = "stream_pages" /\ ProcessFirstPage)
    \/ (route_pc = "stream_pages" /\ StartPageTask)
    \/ (route_pc = "stream_pages" /\ FinishPageTask)
    \/ (route_pc = "stream_pages" /\ GatherReturns)
    \/ (route_pc = "stream_pages" /\ CombineResult)

\* _create_standard_format, then converter.convert_to_formats, whose
\* exception goes to the handler of the try.
StreamConvert ==
    /\ route_pc = "stream_pages"
    /\ \/ page_pc = "finalize"
       \/ page_pc = "combine" /\ combined = Len(results_from_other_pages)
    /\ page_pc' = "done"
    /\ IF ConvertToFormatsRaises([transactions |-> all_transactions.items],
                                 requested_formats)
       THEN EmitError
       ELSE /\ route_pc' = "stream_credits"
            /\ UNCHANGED <<conversion, response>>
    /\ UNCHANGED <<requested_formats, db_user_credits, raw_tables_data,
                   credit_transactions, pages_text, first_page_transactions, headers,
                   page_tasks, page_results, page_replies, completion_order,
                   results_from_other_pages, all_transactions, combined, parse_outcome>>
    /\ UnchangedByStream

\* new_credits = user.credits - pages_processed, sent to the database.
StreamUpdateCredits ==
    /\ route_pc = "stream_credits"
    /\ \E result \in DbResults :
           IF result = "raises"
           THEN EmitError /\ UNCHANGED db_user_credits
           ELSE /\ db_user_credits' =
                       IF result = "stored"
                       THEN current_user.credits - raw_tables_data.pages_processed
                       ELSE db_user_credits
                /\ route_pc' = "stream_transaction"
                /\ UNCHANGED <<conversion, response>>
    /\ UNCHANGED <<requested_formats, raw_tables_data, credit_transactions, page_vars>>
    /\ UnchangedByStream

StreamCreditTransaction ==
    /\ route_pc = "stream_transaction"
    /\ \E result \in DbResults :
           IF result = "raises"
           THEN EmitError /\ UNCHANGED credit_transactions
           ELSE /\ credit_transactions' =
                       IF result = "stored"
                       THEN Append(credit_transactions, raw_tables_data.pages_processed)
                       ELSE credit_transactions
                /\ route_pc' = "stream_record"
                /\ UNCHANGED <<conversion, response>>
    /\ UNCHANGED <<requested_formats, db_user_credits, raw_tables_data, page_vars>>
    /\ UnchangedByStream

\* The record is set to completed and the completion message sent.
StreamComplete ==
    /\ route_pc = "stream_record"
    /\ \E result \in {"stored", "raises"} :
           IF result = "raises"
           THEN EmitError
           ELSE /\ conversion' = UpdateConversion(conversion, "completed")
                /\ response' = [status |-> "completion", transactions |-> <<>>]
                /\ route_pc' = "done"
    /\ UNCHANGED <<requested_formats, db_user_credits, raw_tables_data,
                   credit_transactions, page_vars>>
    /\ UnchangedByStream

\* The client goes away while the task runs: the next send fails,
\* ConnectionManager.disconnect cancels the task, and the CancelledError
\* raised at its next await is no Exception, so no handler runs.
StreamDisconnect ==
    /\ route_pc \in {"stream_text", "stream_pages", "stream_credits",
                     "stream_transaction", "stream_record"}
    /\ route_pc' = "done"
    /\ response' = [status |-> "cancelled", transactions |-> <<>>]
    /\ UNCHANGED <<requested_formats, db_user_credits, conversion, raw_tables_data,
                   credit_transactions, page_vars>>
    /\ UnchangedByStream

StreamNext ==
    \/ StreamStart
    \/ StreamPagesText
    \/ StreamPageStep
    \/ StreamConvert
    \/ StreamUpdateCredits
    \/ StreamCreditTransaction
    \/ StreamComplete
    \/ StreamDisconnect

\* A user holding some credits sends start_conversion.
StreamSpec == RouteInit /\ [][StreamNext]_vars

(***************************************************************************)
(* Vocabulary of the properties                                            *)
(***************************************************************************)
\* Table n of the document as the loop sees it: the frame of its records
\* after fillna('').
RawFrame(n) == FillNa(FrameOfRecords(tables[n].data))

\* Table n has placeholder labels and at least one row.
HasPlaceholderLabels(n) ==
    /\ tables[n].data # <<>>
    /\ AllDigitLabels(RawFrame(n).columns)

KeywordTable(n) == HasPlaceholderLabels(n) /\ first_row_looks_like_headers(RawFrame(n))

PlainTable(n) == HasPlaceholderLabels(n) /\ ~first_row_looks_like_headers(RawFrame(n))

\* The first table has been looked at.
MasterDecided == pc \notin {"extract", "find_master"}

\* The rows of the ledger that come before those of the k-th frame.
Offset(k) == SumSeq([i \in 1..(k - 1) |-> Len(all_processed_dfs[i].rows)])

\* Row r of the k-th frame is row Offset(k) + r of the ledger: the cells
\* under the frame's own labels are the frame's, every other cell is ''.
InLedger(k, r) ==
    LET df == all_processed_dfs[k]
        row == final_df.rows[Offset(k) + r]
    IN IF final_df.columns = df.columns THEN row = df.rows[r]
       ELSE \A j \in 1..Len(final_df.columns) :
                row[j] = IF final_df.columns[j] \in Range(df.columns)
                         THEN df.rows[r][IndexOf(df.columns, final_df.columns[j])]
                         ELSE sEmpty

ScenarioTable == [columns |-> <<s0, s1>>, rows |-> <<<<sDate, sAmount>>, <<cJan, c100>>>>]

ScenarioResolved == [columns |-> <<sDate, sAmount>>, rows |-> <<<<cJan, c100>>>>]

IsScenarioTable(n) ==
    /\ tables[n].columns = ScenarioTable.columns
    /\ tables[n].data = ToDictRecords(ScenarioTable)

C2_Original ==
    (pc = "done" /\ Len(tables) = 1 /\ IsScenarioTable(1))
    => all_processed_dfs = <<ScenarioResolved>>

(***************************************************************************)
(* C2, amended. A run whose first table is that table ends with the        *)
(* no-master-headers result and resolves nothing; the header row is        *)
(* adopted (columns Date, Amount, the one data row) when the table is a    *)
(* later table of the run.                                                 *)
(***************************************************************************)
C2_Amended ==
    /\ (MasterDecided /\ tables # <<>> /\ IsScenarioTable(1))
       => /\ outcome = "no_master_headers"
          /\ all_processed_dfs = <<>>
    /\ \A k \in 1..Len(trail) :
           (/\ pc = "done"
            /\ trail[k].table_number > 1
            /\ IsScenarioTable(trail[k].table_number))
           => /\ trail[k].resolved = ScenarioResolved
              /\ all_processed_dfs[k] = ScenarioResolved

C2_Witness ==
    /\ pc = "done"
    /\ Len(tables) = 1
    /\ IsScenarioTable(1)
    /\ outcome = "no_master_headers"

(***************************************************************************)
(* C3. As claimed: every table (the first included) with all-numeric       *)
(* labels and a keyword in its first row is resolved with that row         *)
(* consumed: the first row's cell values as columns, the other rows in     *)
(* order.                                                                  *)
(***************************************************************************)
C3_Original ==
    pc = "done"
    => \A n \in 1..Len(tables) :
           KeywordTable(n)
           => \E k \in 1..Len(trail) :
                  /\ trail[k].table_number = n
                  /\ trail[k].resolved.columns = RawFrame(n).rows[1]
                  /\ trail[k].resolved.rows = Tail(RawFrame(n).rows)

(***************************************************************************)
(* C3, amended. Every table after the first with all-numeric labels and a  *)
(* keyword in its first row is resolved with that row consumed: one row    *)
(* fewer, the first row's cell values with surrounding blanks stripped as  *)
(* columns, the other rows in order.                                       *)
(***************************************************************************)
C3_Amended ==
    /\ \A n \in 2..Len(tables) :
           (pc = "done" /\ outcome \in {"ok", "raised"} /\ KeywordTable(n))
           => \E k \in 1..Len(trail) : trail[k].table_number = n
    /\ \A k \in 1..Len(trail) :
           LET n == trail[k].table_number
           IN (pc = "done" /\ n > 1 /\ KeywordTable(n))
              => /\ trail[k].resolved.columns = StripAll(RawFrame(n).rows[1])
                 /\ trail[k].resolved.rows = Tail(RawFrame(n).rows)
                 /\ Len(all_processed_dfs[k].rows) = Len(tables[n].data) - 1

C3_Witness ==
    \E k \in 1..Len(trail) :
        LET n == trail[k].table_number
        IN /\ n > 1
           /\ KeywordTable(n)
           /\ RawFrame(n).rows[1][1] = sBalancePadded
           /\ trail[k].resolved.columns = <<Tail(sBalancePadded), s7>>
           /\ Len(all_processed_dfs[k].rows) = 1

(***************************************************************************)
(* C4. A later table with all-numeric labels, no keyword in its first row  *)
(* and a column count other than the master headers' gets the columns      *)
(* Column_1..Column_N, keeps every row, also in the ledger, and is never   *)
(* the reason a run fails.                                                 *)
(***************************************************************************)
C4_GenericOnMismatch ==
    /\ \A n \in 2..Len(tables) :
           (/\ pc = "done"
            /\ outcome \in {"ok", "raised"}
            /\ PlainTable(n)
            /\ Len(RawFrame(n).columns) # Len(master_headers))
           => \E k \in 1..Len(trail) : trail[k].table_number = n
    /\ \A k \in 1..Len(trail) :
           LET n == trail[k].table_number
               df == all_processed_dfs[k]
           IN (/\ pc = "done"
               /\ n > 1
               /\ PlainTable(n)
               /\ Len(RawFrame(n).columns) # Len(master_headers))
              => /\ Len(df.columns) = Len(RawFrame(n).columns)
                 /\ \A j \in 1..Len(df.columns) :
                        df.columns[j] = <<"C", "o", "l", "u", "m", "n", "_">> \o IntToStr(j)
                 /\ df.rows = RawFrame(n).rows
                 /\ trail[k].merge = "none"
                 /\ outcome = "ok" => \A r \in 1..Len(df.rows) : InLedger(k, r)
    /\ outcome = "raised"
       => \E k \in 1..Len(trail) :
              /\ trail[k].branch # "generic"
              /\ HasDuplicates(all_processed_dfs[k].columns)

C4_Witness ==
    /\ outcome = "ok"
    /\ Len(master_headers) = 2
    /\ \E k \in 1..Len(trail) :
           /\ trail[k].table_number > 1
           /\ PlainTable(trail[k].table_number)
           /\ all_processed_dfs[k].columns =
                  << <<"C", "o", "l", "u", "m", "n", "_", "1">>,
                     <<"C", "o", "l", "u", "m", "n", "_", "2">>,
                     <<"C", "o", "l", "u", "m", "n", "_", "3">> >>
           /\ Len(all_processed_dfs[k].rows) = 1
           /\ InLedger(k, 1)

(***************************************************************************)
(* C5. A later table with all-numeric labels, no keyword in its first row  *)
(* and as many columns as there are master headers is resolved to the      *)
(* master headers, the first table's columns in order, with every row      *)
(* kept.                                                                   *)
(***************************************************************************)
C5_MasterHeadersApplied ==
    \A k \in 1..Len(trail) :
        LET n == trail[k].table_number
        IN (/\ pc = "done"
            /\ n > 1
            /\ PlainTable(n)
            /\ Len(RawFrame(n).columns) = Len(master_headers))
           => /\ trail[k].resolved.columns = tables[1].columns
              /\ trail[k].resolved.rows = RawFrame(n).rows
              /\ Len(all_processed_dfs[k].rows) = Len(tables[n].data)

C5_Witness ==
    \E k \in 1..Len(trail) :
        LET n == trail[k].table_number
        IN /\ n > 1
           /\ PlainTable(n)
           /\ trail[k].branch = "master"
           /\ trail[k].resolved.columns = <<sDate, sAmount>>
           /\ Len(all_processed_dfs[k].rows) = 2

\* The tables that are resolved: the first, and every later one with a row.
Kept == {n \in 1..Len(tables) : n = 1 \/ tables[n].data # <<>>}

\* How many tables the groups hold.
GroupedCount == SumSeq([g \in 1..Len(column_groups) |-> Len(column_groups[g].tables)])

(***************************************************************************)
(* C6. As claimed: in a run that completes, the resolved tables are as     *)
(* many as the input tables, and so are the members of the groups; no      *)
(* table, not one with zero rows or an error entry, is dropped.            *)
(***************************************************************************)
C6_Original ==
    outcome = "ok"
    => /\ Len(all_processed_dfs) = Len(tables)
       /\ GroupedCount = Len(tables)

(***************************************************************************)
(* C6, amended. In a run that completes, the first table and every later   *)
(* table with at least one row yield exactly one resolved table each, in   *)
(* table order, and each is a member of a group; a later table with zero   *)
(* rows or an error entry is skipped: it yields no resolved table and is   *)
(* in no group.                                                            *)
(***************************************************************************)
C6_Amended ==
    outcome = "ok"
    => /\ Len(trail) = Cardinality(Kept)
       /\ Len(all_processed_dfs) = Len(trail)
       /\ \A k \in 1..Len(trail) : trail[k].table_number \in Kept
       /\ \A k, l \in 1..Len(trail) :
              k < l => trail[k].table_number < trail[l].table_number
       /\ skipped = (1..Len(tables)) \ Kept
       /\ GroupedCount = Len(trail)

C6_Witness ==
    /\ outcome = "ok"
    /\ Len(tables) = 3
    /\ tables[2].has_error
    /\ ~tables[3].has_error /\ tables[3].columns # <<>> /\ tables[3].data = <<>>
    /\ skipped = {2, 3}
    /\ Len(all_processed_dfs) = 1

(***************************************************************************)
(* C7. As claimed: the column labels of every resolved table are           *)
(* non-numeric and pairwise distinct.                                      *)
(***************************************************************************)
C7_Original ==
    \A k \in 1..Len(all_processed_dfs) :
        LET cols == all_processed_dfs[k].columns
        IN /\ \A j \in 1..Len(cols) : ~IsDigit(cols[j])
           /\ ~HasDuplicates(cols)

\* An '' label at an index i > 0.
HasSplitColumn(cols) == \E i \in 2..Len(cols) : cols[i] = sEmpty

\* The one '' label is at an index i > 0 and the label before it occurs once.
HasOneSplitColumn(cols) ==
    /\ Count(cols, sEmpty) = 1
    /\ IndexOf(cols, sEmpty) > 1
    /\ Count(cols, cols[IndexOf(cols, sEmpty) - 1]) = 1

C9_Original ==
    pc = "done"
    => \A k \in 1..Len(trail) :
           trail[k].merge = "failed"
           => /\ all_processed_dfs[k] = trail[k].resolved
              /\ outcome = "ok"
              /\ \E g \in 1..Len(column_groups) :
                     \E t \in 1..Len(column_groups[g].tables) :
                         column_groups[g].tables[t].table_number = k

(***************************************************************************)
(* C10. The ledger of a run that completes is the rows of the resolved     *)
(* tables, table after table in table order and row after row, nothing     *)
(* left out: a row that two tables hold is there twice, and the ledger has *)
(* as many rows as the resolved tables together.                           *)
(***************************************************************************)
C10_LedgerIsConcatenation ==
    outcome = "ok"
    => /\ Len(final_df.rows) =
              SumSeq([k \in 1..Len(all_processed_dfs) |-> Len(all_processed_dfs[k].rows)])
       /\ \A k \in 1..Len(all_processed_dfs) :
              \A r \in 1..Len(all_processed_dfs[k].rows) : InLedger(k, r)
       /\ \A k, l \in 1..Len(trail) :
              k < l => trail[k].table_number < trail[l].table_number

C10_Witness ==
    /\ outcome = "ok"
    /\ Len(all_processed_dfs) = 2
    /\ all_processed_dfs[1].rows = <<<<cJan, c100>>, <<cFeb, c100>>>>
    /\ all_processed_dfs[2].rows = all_processed_dfs[1].rows
    /\ final_df.rows = <<<<cJan, c100>>, <<cFeb, c100>>, <<cJan, c100>>, <<cFeb, c100>>>>

(***************************************************************************)
(* The conversion request                                                  *)
(***************************************************************************)
\* A fatal condition of the run: the engine reported an error, there is no
\* table, or the first table has no usable headers.
FatalCondition ==
    \/ raw_tables_data.has_error
    \/ outcome \in {"no_tables", "no_master_headers"}

\* C11: under any fatal condition and whatever formats were requested, the
\* conversion record never becomes completed and ends failed, no
\* transactions are returned and the stored credits stay as they were.
C11_Original ==
    FatalCondition =>
        /\ conversion.status # "completed"
        /\ db_user_credits = current_user.credits
        /\ route_pc = "done" =>
               /\ conversion.status = "failed"
               /\ response.transactions = <<>>

\* C12: when the extraction result carries the error field,
\* process_tables_sequentially never starts: the request goes from
\* extraction to the failed state, the record updated once.
C12_ErrorSkipsConsolidation ==
    raw_tables_data.has_error =>
        /\ route_pc \in {"extract", "done"}
        /\ pc = "find_master"
        /\ outcome = "running"
        /\ all_processed_dfs = <<>>
        /\ route_pc = "done" =>
               /\ conversion = [status |-> "failed", updates |-> <<"failed">>]
               /\ response.status = "500"

C12_Witness == raw_tables_data.has_error /\ route_pc = "done"

(***************************************************************************)
(* Grouping of the resolved tables                                         *)
(***************************************************************************)
\* The positions of the groups that hold the k-th resolved table.
GroupsOf(k) ==
    {g \in 1..Len(column_groups) :
        \E t \in 1..Len(column_groups[g].tables) :
            column_groups[g].tables[t].table_number = k}

SameGroup(k, l) == GroupsOf(k) \cap GroupsOf(l) # {}

\* The normalized column tuple of the k-th resolved table, label by label.
Signature(k) ==
    [i \in 1..Len(all_processed_dfs[k].columns) |->
        NormalizedLabel(all_processed_dfs[k].columns[i])]

\* C13: in a completed run two resolved tables are in the same group exactly
\* when their normalized column tuples have the same length and the same
\* token at every position; tables with columns ["Date","Amount"] and
\* ["Amount","Date"] are never in the same group.
C13_GroupedBySignature ==
    outcome = "ok" =>
        /\ \A k \in 1..Len(all_processed_dfs) : \A l \in k..Len(all_processed_dfs) :
               SameGroup(k, l) <=>
                   /\ Len(Signature(k)) = Len(Signature(l))
                   /\ \A i \in 1..Len(Signature(k)) : Signature(k)[i] = Signature(l)[i]
        /\ \A k, l \in 1..Len(all_processed_dfs) :
               (/\ all_processed_dfs[k].columns = <<sDate, sAmount>>
                /\ all_processed_dfs[l].columns = <<sAmount, sDate>>)
               => ~SameGroup(k, l)

C13_Witness ==
    /\ outcome = "ok"
    /\ Len(all_processed_dfs) = 3
    /\ all_processed_dfs[1].columns = <<sDate, sAmount>>
    /\ all_processed_dfs[2].columns = <<sAmount, sDate>>
    /\ all_processed_dfs[3].columns = <<sDate, sAmount>>
    /\ SameGroup(1, 3)
    /\ ~SameGroup(1, 2)

\* C14: the labels "Value" and "Value Date" normalize to the one token
\* value_date, so in a completed run a table headed ["Value","Particulars"]
\* and a table headed ["Value Date","Particulars"] are in one group,
\* whichever of the two comes first.
C14_ValueIsValueDate ==
    /\ NormalizedLabel(sValueLabel) = sValueDate
    /\ NormalizedLabel(sValueDateLabel) = sValueDate
    /\ outcome = "ok" =>
           \A k, l \in 1..Len(all_processed_dfs) :
               (/\ all_processed_dfs[k].columns = <<sValueLabel, sParticulars>>
                /\ all_processed_dfs[l].columns = <<sValueDateLabel, sParticulars>>)
               => /\ SameGroup(k, l)
                  /\ Cardinality(GroupsOf(k)) = 1

C14_Witness ==
    /\ outcome = "ok"
    /\ Len(all_processed_dfs) = 3
    /\ all_processed_dfs[1].columns = <<sValueLabel, sParticulars>>
    /\ all_processed_dfs[2].columns = <<sValueDateLabel, sParticulars>>
    /\ all_processed_dfs[3].columns = <<sValueLabel, sParticulars>>
    /\ Len(column_groups) = 1
    /\ Len(column_groups[1].tables) = 3

\* The resolved tables with columns ["Date","Description","Amount"].
LedgerLayoutTables ==
    {k \in 1..Len(all_processed_dfs) :
        all_processed_dfs[k].columns = <<sDate, sDescription, sAmount>>}

\* C15: when exactly two resolved tables have the columns
\* ["Date","Description","Amount"], a completed run has one group that holds
\* both, its row count is the sum of the two tables' row counts, and its
\* merged_from lists the two tables' original table numbers, also when an
\* earlier table of the run was skipped.
C15_Original ==
    outcome = "ok" =>
        \A k, l \in LedgerLayoutTables :
            (k < l /\ LedgerLayoutTables = {k, l}) =>
                /\ GroupsOf(k) = GroupsOf(l)
                /\ Cardinality(GroupsOf(k)) = 1
                /\ \A g \in GroupsOf(k) :
                       /\ individual_tables[g].row_count =
                              Len(all_processed_dfs[k].rows) + Len(all_processed_dfs[l].rows)
                       /\ individual_tables[g].merged_from =
                              <<trail[k].table_number, trail[l].table_number>>

C17_GroupsNumberedInOrder ==
    outcome = "ok" =>
        /\ Len(individual_tables) = Len(column_groups)
        /\ \A g \in 1..Len(individual_tables) :
               /\ individual_tables[g].table_number = g
               /\ individual_tables[g].columns = column_groups[g].key
               /\ \A t \in 2..Len(individual_tables[g].merged_from) :
                      individual_tables[g].merged_from[1]
                          < individual_tables[g].merged_from[t]
        /\ \A g, h \in 1..Len(individual_tables) :
               g < h => individual_tables[g].merged_from[1]
                            < individual_tables[h].merged_from[1]

C17_Witness ==
    /\ outcome = "ok"
    /\ Len(individual_tables) = 2
    /\ individual_tables[1].merged_from = <<1, 2>>
    /\ individual_tables[2].merged_from = <<3>>
    /\ individual_tables[2].table_number = 2

(***************************************************************************)
(* The structured format                                                   *)
(***************************************************************************)
\* The keys of a transaction, and the value it holds under one of them.
TransactionKeys(transaction) ==
    {transaction[i][1] : i \in 1..Len(transaction)}

ValueUnder(transaction, key) ==
    transaction[CHOOSE i \in 1..Len(transaction) : transaction[i][1] = key][2]

\* The column labels of all resolved tables.
AllResolvedLabels ==
    UNION {Range(all_processed_dfs[k].columns) : k \in 1..Len(all_processed_dfs)}

\* C18: every emitted transaction has, once each, the keys that are the
\* union of the column labels of all resolved tables, and under a label its
\* row's own table does not have it holds the empty string.
C18_TransactionsShareKeys ==
    parsed_data.transactions # <<>> =>
        /\ \A t \in 1..Len(parsed_data.transactions) :
               /\ TransactionKeys(parsed_data.transactions[t]) = AllResolvedLabels
               /\ Len(parsed_data.transactions[t]) = Cardinality(AllResolvedLabels)
        /\ \A k \in 1..Len(all_processed_dfs) :
               \A r \in 1..Len(all_processed_dfs[k].rows) :
                   \A label \in AllResolvedLabels \ Range(all_processed_dfs[k].columns) :
                       ValueUnder(parsed_data.transactions[Offset(k) + r], label) = sEmpty

C18_Witness ==
    /\ Len(parsed_data.transactions) = 2
    /\ all_processed_dfs[1].columns = <<sDate, sAmount>>
    /\ all_processed_dfs[2].columns = <<sDate, sDescription, sAmount>>
    /\ TransactionKeys(parsed_data.transactions[1]) = {sDate, sAmount, sDescription}
    /\ ValueUnder(parsed_data.transactions[1], sDescription) = sEmpty
    /\ ValueUnder(parsed_data.transactions[2], sDescription) = cTea

\* convert_to_structured_format has returned.
Emitted ==
    /\ pc = "done"
    /\ outcome # "raised"
    /\ route_pc \in {"formats", "credits", "credit_transaction", "record", "done"}

\* C19, as claimed: metadata.detected_headers is the column labels of the
\* first table of the ledger, not the union of all tables' labels, also when
\* a later table has a label the first has not.
C19_Original ==
    (Emitted /\ parsed_data.has_detected_headers) =>
        parsed_data.detected_headers = all_processed_dfs[1].columns

\* A cell that spells a missing value, whatever its case.
SpellsMissing(cell) == Lower(cell) \in missing_spellings

\* C20, as claimed: every ledger row is one transaction, a cell that is
\* missing or spells nan, none or null in any case is emitted as the empty
\* string, and every other cell is emitted as it is.
C20_Original ==
    Emitted =>
        /\ parsed_data.total_transactions = Len(final_df.rows)
        /\ Len(parsed_data.transactions) = Len(final_df.rows)
        /\ \A r \in 1..Len(parsed_data.transactions) :
               \A j \in 1..Len(final_df.columns) :
                   ValueUnder(parsed_data.transactions[r], final_df.columns[j]) =
                       IF SpellsMissing(final_df.rows[r][j]) THEN sEmpty
                       ELSE final_df.rows[r][j]

\* C20, amended: every ledger row is one transaction, a cell that is missing
\* or spells nan, none or null in any case is emitted as the empty string,
\* and every other cell is emitted without its leading and trailing
\* whitespace.
C20_Amended ==
    Emitted =>
        /\ parsed_data.total_transactions = Len(final_df.rows)
        /\ Len(parsed_data.transactions) = Len(final_df.rows)
        /\ \A r \in 1..Len(parsed_data.transactions) :
               \A j \in 1..Len(final_df.columns) :
                   ValueUnder(parsed_data.transactions[r], final_df.columns[j]) =
                       IF SpellsMissing(final_df.rows[r][j]) THEN sEmpty
                       ELSE Strip(final_df.rows[r][j])

C20_Witness ==
    /\ Emitted
    /\ final_df.columns = <<sDate, sDescription, sAmount>>
    /\ final_df.rows = <<<<cFeb, cNone, cNaNText>>, <<cNULL, cBus, c100>>>>
    /\ parsed_data.total_transactions = 2
    /\ parsed_data.transactions[1] = <<<<sDate, cFeb>>, <<sDescription, sEmpty>>,
                                       <<sAmount, sEmpty>>>>
    /\ parsed_data.transactions[2] = <<<<sDate, sEmpty>>, <<sDescription, <<"b", "u", "s">>>>,
                                       <<sAmount, c100>>>>

\* The rows of the group at position g that come before those of its t-th
\* member.
MemberOffset(g, t) ==
    SumSeq([u \in 1..(t - 1) |->
               Len(all_processed_dfs[individual_tables[g].merged_from[u]].rows)])

\* C21: in a completed run the columns a group reports are the labels of its
\* first member as that table has them, a table that starts a group keeps
\* its own labels, and every row of the group, whichever member it comes
\* from, is keyed by the first member's labels, position by position.
C21_GroupKeyedByFirstMember ==
    outcome = "ok" =>
        \A g \in 1..Len(individual_tables) :
            LET members == individual_tables[g].merged_from
                first_columns == all_processed_dfs[members[1]].columns
            IN /\ individual_tables[g].columns = first_columns
               /\ column_groups[g].tables[1].dataframe = all_processed_dfs[members[1]]
               /\ \A t \in 1..Len(members) :
                      \A r \in 1..Len(all_processed_dfs[members[t]].rows) :
                          individual_tables[g].data[MemberOffset(g, t) + r]
                              = RecordOf(first_columns, all_processed_dfs[members[t]].rows[r])

C21_Witness ==
    /\ outcome = "ok"
    /\ Len(individual_tables) = 1
    /\ individual_tables[1].merged_from = <<1, 2>>
    /\ all_processed_dfs[1].columns = <<sValueLabel, sParticulars>>
    /\ all_processed_dfs[2].columns = <<sValueDateLabel, sParticulars>>
    /\ individual_tables[1].columns = <<sValueLabel, sParticulars>>
    /\ individual_tables[1].data[2] = <<<<sValueLabel, cFeb>>, <<sParticulars, cBus>>>>

(***************************************************************************)
(* The sample transactions                                                 *)
(***************************************************************************)
\* The sample fields with their candidate names.
SampleFields ==
    { [key |-> kw_date, names |-> date_names],
      [key |-> kw_description, names |-> description_names],
      [key |-> kw_amount, names |-> amount_names] }

\* The ledger columns whose lower-cased label contains the name.
ColumnsHolding(name) ==
    {i \in 1..Len(final_df.columns) : Contains(Lower(final_df.columns[i]), name)}

\* The ledger columns that match some candidate name of the field.
MatchingColumns(field) ==
    UNION {ColumnsHolding(field.names[n]) : n \in 1..Len(field.names)}

Earliest(positions) == CHOOSE i \in positions : \A j \in positions : i <= j

\* The earliest of the columns that match the field's first matched name.
PreferredColumn(field) ==
    LET matched == {n \in 1..Len(field.names) : ColumnsHolding(field.names[n]) # {}}
    IN Earliest(ColumnsHolding(field.names[Earliest(matched)]))

\* The samples of a completed run take the field from the given column.
SampledFrom(field, column) ==
    \A r \in 1..Len(sample_transactions) :
        /\ Cardinality({i \in 1..Len(sample_transactions[r]) :
                           sample_transactions[r][i][1] = field.key}) = 1
        /\ ValueUnder(sample_transactions[r], field.key)
               = IF field.key = kw_description
                 THEN Truncated(final_df.rows[r][column])
                 ELSE final_df.rows[r][column]

NotSampled(field) ==
    \A r \in 1..Len(sample_transactions) :
        field.key \notin TransactionKeys(sample_transactions[r])

\* C22, as claimed: each sample field is taken from at most one column, and
\* of the columns that match any candidate name of the field the earliest
\* in column order is the one: in a ledger whose column "Balance" comes
\* before its column "Amount" the amount is taken from "Balance".
C22_Original ==
    (outcome = "ok" /\ ~IsEmptyFrame(final_df)) =>
        \A field \in SampleFields :
            IF MatchingColumns(field) = {} THEN NotSampled(field)
            ELSE SampledFrom(field, Earliest(MatchingColumns(field)))

\* C22, amended: each sample field is taken from at most one column; the
\* candidate names are tried in their listed order, the first name that some
\* column contains decides, and of the columns that contain that name the
\* earliest wins: in a ledger whose column "Balance" comes before its column
\* "Amount" the amount is taken from "Amount", because amount is listed
\* before balance.
C22_Amended ==
    (outcome = "ok" /\ ~IsEmptyFrame(final_df)) =>
        \A field \in SampleFields :
            IF MatchingColumns(field) = {} THEN NotSampled(field)
            ELSE SampledFrom(field, PreferredColumn(field))

C22_Witness ==
    /\ outcome = "ok"
    /\ \E i, j \in 1..Len(final_df.columns) :
           /\ i < j
           /\ Contains(Lower(final_df.columns[i]), kw_balance)
           /\ final_df.columns[j] = sAmount
           /\ \E r \in 1..Len(sample_transactions) :
                  /\ final_df.rows[r][j] = c100
                  /\ ValueUnder(sample_transactions[r], kw_amount) = c100

(***************************************************************************)
(* The per-page pipeline                                                   *)
(***************************************************************************)
\* The transactions of the result that come from the given page.
FromPage(page) ==
    {n \in 1..Len(all_transactions.items) : all_transactions.items[n].page = page}

\* C23: the result of a parse that returns is page 1's transactions, then
\* page 2's, then page 3's and so on, each page's in the order of its reply,
\* whatever the order in which the tasks of the pages 2..N finished.
C23_PageOrder ==
    parse_outcome = "returned" =>
        /\ \A m, n \in 1..Len(all_transactions.items) :
               m < n =>
                   \/ all_transactions.items[m].page < all_transactions.items[n].page
                   \/ /\ all_transactions.items[m].page = all_transactions.items[n].page
                      /\ all_transactions.items[m].row < all_transactions.items[n].row
        /\ \A n \in FromPage(1) : all_transactions.items[n].row = n
        /\ \A i \in 1..Len(page_results) :
               Cardinality(FromPage(i + 1)) = Len(page_results[i].items)

C23_Witness ==
    /\ parse_outcome = "returned"
    /\ completion_order = <<2, 1>>
    /\ Len(all_transactions.items) = 4
    /\ all_transactions.items[1].page = 1
    /\ all_transactions.items[2].page = 2
    /\ all_transactions.items[3].page = 3
    /\ all_transactions.items[4].page = 3

\* Some task of a page 2..N has started.
SomePageStarted == \E i \in 1..Len(page_tasks) : page_tasks[i] # "created"

\* C24: no task of a page 2..N exists, let alone runs, before page 1 has
\* been processed and has given headers; when page 1 gives no headers no
\* task is ever created and the result is page 1's transactions alone,
\* none at all when page 1 gave no transactions or failed.
C24_FirstPageGates ==
    /\ page_pc \in {"idle", "extract", "first_page"} => page_tasks = <<>>
    /\ SomePageStarted => headers # <<>>
    /\ (page_pc \in {"finalize", "done"} /\ pages_text > 0 /\ headers = <<>>) =>
           /\ page_tasks = <<>>
           /\ completion_order = <<>>
           /\ all_transactions = first_page_transactions
           /\ parse_outcome # "raised"
           /\ \A n \in 1..Len(all_transactions.items) : all_transactions.items[n].page = 1
    /\ (page_pc = "done" /\ pages_text > 0 /\ first_page_transactions.items = <<>>) =>
           /\ parse_outcome = "returned"
           /\ all_transactions.items = <<>>

C24_Witness ==
    /\ page_pc = "done"
    /\ pages_text = 3
    /\ headers = <<>>
    /\ parse_outcome = "returned"
    /\ all_transactions.items = <<>>

\* The replies that are no result: an exception of the call or of the
\* handling of its answer, and text that does not parse.
FailedReplies == {"raises", "garbage", "null"}

\* The transactions of the result that came from a page, in their order.
ResultOfPage(page) == SelectSeq(all_transactions.items, LAMBDA t : t.page = page)

\* C30: a page 2..N whose call raised or whose reply did not parse adds
\* nothing to the result and stops nothing: the parse returns, and every
\* other page's transactions, page 1's included, are in the result.
C30_FailedPageIsolated ==
    (page_pc = "done" /\ page_tasks # <<>>) =>
        /\ parse_outcome = "returned"
        /\ \A i \in 1..Len(page_tasks) :
               /\ page_replies[i] \in FailedReplies =>
                      /\ page_results[i] = NoTransactions
                      /\ ResultOfPage(i + 1) = <<>>
               /\ page_replies[i] \notin FailedReplies =>
                      ResultOfPage(i + 1) = page_results[i].items
        /\ ResultOfPage(1) # <<>>

C30_Witness ==
    /\ page_pc = "done"
    /\ Len(page_tasks) = 2
    /\ page_replies[1] = "raises"
    /\ page_replies[2] = "json"
    /\ Len(ResultOfPage(3)) = 2
    /\ parse_outcome = "returned"

\* How many times the k-th processed table is a member of the group g.
Memberships(g, k) ==
    Cardinality({t \in 1..Len(column_groups[g].tables) :
                    column_groups[g].tables[t].table_number = k})

\* C25: in a completed run every processed table is a member of exactly
\* one group, once, and the groups have no other members; no two groups
\* have the same normalized column tuple; the row counts of the merged
\* tables add up to the rows of the consolidated ledger.
C25_GroupsPartition ==
    (pc = "done" /\ outcome = "ok") =>
        /\ \A k \in 1..Len(all_processed_dfs) :
               /\ Cardinality(GroupsOf(k)) = 1
               /\ \A g \in GroupsOf(k) : Memberships(g, k) = 1
        /\ \A g \in 1..Len(column_groups) :
               /\ column_groups[g].tables # <<>>
               /\ \A t \in 1..Len(column_groups[g].tables) :
                      column_groups[g].tables[t].table_number \in 1..Len(all_processed_dfs)
        /\ \A g, h \in 1..Len(column_groups) :
               g # h => get_normalized_column_key(column_groups[g].key)
                            # get_normalized_column_key(column_groups[h].key)
        /\ Len(individual_tables) = Len(column_groups)
        /\ SumSeq([g \in 1..Len(individual_tables) |-> individual_tables[g].row_count])
               = Len(final_df.rows)

C25_Witness ==
    /\ pc = "done"
    /\ outcome = "ok"
    /\ Len(all_processed_dfs) = 3
    /\ Len(column_groups) = 2
    /\ SameGroup(1, 3)
    /\ Len(final_df.rows) >= 3

\* The request has ended on a document that needs more credits than the
\* user holds.
InsufficientCredits ==
    /\ route_pc = "done"
    /\ ~raw_tables_data.has_error
    /\ current_user.credits < raw_tables_data.pages_processed

\* C26: a request whose record ends failed leaves the stored credits as
\* they were; the stored credits differ from the user's only when the
\* record ends completed, and then by pages_processed.
C26_Original ==
    route_pc = "done" =>
        /\ conversion.status = "failed" => db_user_credits = current_user.credits
        /\ db_user_credits # current_user.credits =>
               /\ conversion.status = "completed"
               /\ db_user_credits = current_user.credits - raw_tables_data.pages_processed

\* C29: with fewer credits than pages the request answers 402, the record
\* is set to failed exactly once, no table is processed and no credit is
\* taken.
C29_Original ==
    InsufficientCredits =>
        /\ response.status = "402"
        /\ conversion = [status |-> "failed", updates |-> <<"failed">>]
        /\ outcome = "running"
        /\ all_processed_dfs = <<>>
        /\ db_user_credits = current_user.credits
        /\ credit_transactions = <<>>

\* Both requests of the user have completed.
BothCompleted == \A r \in Requests : requests[r].pc = "completed"

\* C27: when both concurrent requests of a user complete, the stored
\* credits are the credits the user started with less the pages of both
\* requests, which the credit transactions record; the stored credits are
\* never negative.
C27_Original ==
    /\ db_user_credits >= 0
    /\ BothCompleted =>
           db_user_credits = current_user.credits - SumSeq(credit_transactions)

\* The request or streaming task of a created record has ended.
RequestEnded == route_pc = "done" /\ conversion.status # "none"

\* C28: once the request or task of a conversion record has ended, on
\* whatever path, the record is completed or failed, never left processing.
C28_Original == RequestEnded => conversion.status \in {"completed", "failed"}

====
